---- MODULE Spec2Model ----
(***************************************************************************)
(* ECG delineation (neurokit2/ecg/ecg_delineate.py) as a state machine.    *)
(*                                                                         *)
(* One behaviour is one call of ecg_delineate: the inputs are chosen in    *)
(* Init, the steps are the statements of the dispatcher, and each of the   *)
(* three strategies is an operator translated from its function.           *)
(*                                                                         *)
(* Conventions.  A numpy array is a function over 0..n-1 (the code's own   *)
(* indices).  A Python list of results is a sequence of slots, a slot      *)
(* being <<v>> for the index v and << >> for np.nan.  Thresholds that the  *)
(* code computes in floating point are compared exactly, as rationals;     *)
(* every such comparison in the code is homogeneous in the signal, so the  *)
(* wavelet filters are kept in integers by scaling their taps.             *)
(***************************************************************************)
EXTENDS Integers, Sequences, FiniteSets, TLC

(***************************************************************************)
(* numpy / Python primitives                                               *)
(***************************************************************************)
NaN == << >>
Val(v) == <<v>>
IsNaN(s) == s = << >>

\* A numpy array holds its values once built: Stored fixes them.
Stored(f) == IF f = f THEN f ELSE f

PyLen(a) == Cardinality(DOMAIN a)

Min2(a, b) == IF a < b THEN a ELSE b
Max2(a, b) == IF a > b THEN a ELSE b
Abs(v) == IF v < 0 THEN -v ELSE v

\* int(): truncation toward zero of the rational a / b, b > 0.
TruncDiv(a, b) == IF a >= 0 THEN a \div b ELSE -((-a) \div b)

\* a[s:e] with Python's rule for negative and out-of-range bounds.
PySlice(a, s, e) ==
    LET n  == PyLen(a)
        s0 == IF s < 0 THEN Max2(n + s, 0) ELSE Min2(s, n)
        e0 == IF e < 0 THEN Max2(n + e, 0) ELSE Min2(e, n)
    IN  Stored([i \in 0..(e0 - s0 - 1) |-> a[s0 + i]])

Negated(a) == Stored([i \in DOMAIN a |-> -a[i]])
AbsArr(a) == Stored([i \in DOMAIN a |-> Abs(a[i])])

RECURSIVE SumRange(_, _, _)
SumRange(a, lo, hi) ==
    IF lo > hi THEN 0
    ELSE IF lo = hi THEN a[lo]
    ELSE LET mid == (lo + hi) \div 2
         IN  SumRange(a, lo, mid) + SumRange(a, mid + 1, hi)

RECURSIVE MaxRange(_, _, _)
MaxRange(a, lo, hi) ==
    IF lo = hi THEN a[lo]
    ELSE LET mid == (lo + hi) \div 2
         IN  Max2(MaxRange(a, lo, mid), MaxRange(a, mid + 1, hi))

\* max(a) of a non-empty array.
ArrMax(a) == MaxRange(a, 0, PyLen(a) - 1)

\* The squares of the wavelet coefficients exceed the range of TLC's 32-bit
\* integers, so sums of squares are kept in three limbs <<c2, c1, c0>>, the
\* number c2 * Limb^2 + c1 * Limb + c0 with c1, c0 < Limb.
Limb == 4096
Norm3(c2, c1, c0) ==
    LET t1 == c1 + (c0 \div Limb)
    IN  <<c2 + (t1 \div Limb), t1 % Limb, c0 % Limb>>
Sq3(v) ==
    LET h == Abs(v) \div Limb
        l == Abs(v) % Limb
    IN  Norm3(h * h, 2 * h * l, l * l)
Add3(a, b) == Norm3(a[1] + b[1], a[2] + b[2], a[3] + b[3])
Geq3(a, b) ==
    \/ a[1] > b[1]
    \/ a[1] = b[1] /\ a[2] > b[2]
    \/ a[1] = b[1] /\ a[2] = b[2] /\ a[3] >= b[3]
\* <<quotient, exact>> of a three-limb number by a small divisor d.
Div3(a, d) ==
    LET v1 == (a[1] % d) * Limb + a[2]
        v0 == (v1 % d) * Limb + a[3]
    IN  [q |-> <<a[1] \div d, v1 \div d, v0 \div d>>, exact |-> v0 % d = 0]

RECURSIVE SumSq3(_, _, _)
SumSq3(a, lo, hi) ==
    IF lo > hi THEN <<0, 0, 0>>
    ELSE IF lo = hi THEN Sq3(a[lo])
    ELSE LET mid == (lo + hi) \div 2
         IN  Add3(SumSq3(a, lo, mid), SumSq3(a, mid + 1, hi))

\* v >= (1 / wden) * sqrt(mean(x ^ 2)) for v >= 0 and a non-empty window x:
\* v^2 * m >= sum(x^2) / (n * d), where wden^2 = m * d.
RmsHeightReached(v, sumsq, n, m, d) ==
    LET byN == Div3(sumsq, n)
        byD == Div3(byN.q, d)
        sq  == Sq3(v)
        lhs == Norm3(sq[1] * m, sq[2] * m, sq[3] * m)
    IN  IF byN.exact /\ byD.exact THEN Geq3(lhs, byD.q)
        ELSE Geq3(lhs, Add3(byD.q, <<0, 0, 1>>))

\* First / last index in lo..hi at which the Boolean array b is TRUE,
\* hi + 1 / lo - 1 when there is none.
RECURSIVE FirstTrue(_, _, _)
FirstTrue(b, lo, hi) ==
    IF lo > hi THEN hi + 1
    ELSE IF lo = hi THEN (IF b[lo] THEN lo ELSE hi + 1)
    ELSE LET mid == (lo + hi) \div 2
             l   == FirstTrue(b, lo, mid)
         IN  IF l <= mid THEN l ELSE FirstTrue(b, mid + 1, hi)

RECURSIVE LastTrue(_, _, _)
LastTrue(b, lo, hi) ==
    IF lo > hi THEN lo - 1
    ELSE IF lo = hi THEN (IF b[lo] THEN lo ELSE lo - 1)
    ELSE LET mid == (lo + hi) \div 2
             r   == LastTrue(b, mid + 1, hi)
         IN  IF r > mid THEN r ELSE LastTrue(b, lo, mid)

(***************************************************************************)
(* scipy.signal.find_peaks                                                 *)
(***************************************************************************)
\* End of the run of equal samples that starts at l (scipy's i_ahead - 1).
PlateauEnd(x, n, l) ==
    IF x[l + 1] # x[l] THEN l
    ELSE FirstTrue([j \in l..(n - 1) |-> x[j] # x[l]], l, n - 1) - 1

\* find_peaks(x), the peak indices as a set (_local_maxima_1d): midpoints of
\* the plateaus that are strictly higher than both neighbours; the first
\* and the last sample are never peaks.
find_peaks(x) ==
    LET n == PyLen(x)
    IN  { (l + PlateauEnd(x, n, l)) \div 2 :
            l \in { i \in 1..(n - 2) :
                      /\ x[i - 1] < x[i]
                      /\ LET r == PlateauEnd(x, n, i)
                         IN  r <= n - 2 /\ x[r + 1] < x[i] } }

\* The first / last element of a set of indices of an array of length n,
\* and the element that follows p; n (or -1) when there is none.
FirstOf(S, n) == FirstTrue([j \in 0..(n - 1) |-> j \in S], 0, n - 1)
LastOf(S, n) == LastTrue([j \in 0..(n - 1) |-> j \in S], 0, n - 1)
NextOf(S, n, p) == FirstTrue([j \in (p + 1)..(n - 1) |-> j \in S], p + 1, n - 1)

(***************************************************************************)
(* Collaborators of the delineation core that live outside this file       *)
(***************************************************************************)
\* signal_zerocrossings(x): the indices immediately following a sign change.
signal_zerocrossings(x) ==
    LET Sign(v) == IF v > 0 THEN 1 ELSE IF v < 0 THEN -1 ELSE 0
    IN  { i \in 1..(PyLen(x) - 1) : Sign(x[i - 1]) # Sign(x[i]) }

\* signal_resample(signal, sampling_rate, desired_sampling_rate): the signal
\* at the desired rate, each output sample taking the input sample it falls on.
signal_resample(signal, sampling_rate, desired_sampling_rate) ==
    LET n == (PyLen(signal) * desired_sampling_rate) \div sampling_rate
    IN  Stored([j \in 0..(n - 1) |->
                  signal[(j * sampling_rate) \div desired_sampling_rate]])

(***************************************************************************)
(* WAVELET METHOD (DWT)                                                    *)
(***************************************************************************)
\* _dwt_resample_points: scale, drop the nan entries, truncate to int.
RECURSIVE DropNaN(_)
DropNaN(points) ==
    IF points = << >> THEN << >>
    ELSE IF IsNaN(Head(points)) THEN DropNaN(Tail(points))
    ELSE <<Head(points)>> \o DropNaN(Tail(points))

dwt_resample_points(peaks, sampling_rate, desired_sampling_rate) ==
    LET kept == DropNaN(peaks)
    IN  [i \in 1..Len(kept) |->
           Val(TruncDiv(kept[i][1] * desired_sampling_rate, sampling_rate))]

\* int(np.log2(sampling_rate / 250))
RECURSIVE FloorLog2(_, _)
FloorLog2(num, den) == IF num < 2 * den THEN 0 ELSE 1 + FloorLog2(num, 2 * den)
dwt_compensate_degree(sampling_rate) ==
    IF sampling_rate >= 250 THEN FloorLog2(sampling_rate, 250)
    ELSE -FloorLog2(250, sampling_rate)

\* _apply_H_filter / _apply_G_filter: full convolution with the dilated
\* bank, then signal_f[:-timedelay] = signal_f[timedelay:].  The H taps
\* 1/8, 3/8, 3/8, 1/8 are kept as 1, 3, 3, 1 (each level scaled by 8).
At0(a, n, i) == IF i >= 0 /\ i < n THEN a[i] ELSE 0
apply_H_filter(signal_i, power) ==
    LET timedelay == 2 ^ power
        n == PyLen(signal_i)
        L == n + 3 * timedelay
        full(i) == At0(signal_i, n, i) + 3 * At0(signal_i, n, i - timedelay)
                   + 3 * At0(signal_i, n, i - 2 * timedelay)
                   + At0(signal_i, n, i - 3 * timedelay)
    IN  Stored([i \in 0..(L - 1) |->
                  IF i < L - timedelay THEN full(i + timedelay) ELSE full(i)])

apply_G_filter(signal_i, power) ==
    LET timedelay == 2 ^ power
        n == PyLen(signal_i)
        L == n + timedelay
        full(i) == 2 * At0(signal_i, n, i) - 2 * At0(signal_i, n, i - timedelay)
    IN  Stored([i \in 0..(L - 1) |->
                  IF i < L - timedelay THEN full(i + timedelay) ELSE full(i)])

\* The loop over deg with the scale signals left at the length the
\* convolution gives them.
RECURSIVE multiscales_loop_uncut(_, _, _, _, _)
multiscales_loop_uncut(intermediate_ret, deg, max_degree, n, dwtmatr) ==
    IF deg >= max_degree THEN dwtmatr
    ELSE multiscales_loop_uncut(apply_H_filter(intermediate_ret, deg), deg + 1,
                                max_degree, n,
                                Append(dwtmatr, apply_G_filter(intermediate_ret, deg)))

\* _dwt_compute_multiscales: the loop over deg, carrying intermediate_ret and
\* the scale signals appended so far; every scale signal is cut to len(ecg).
RECURSIVE multiscales_loop(_, _, _, _, _)
multiscales_loop(intermediate_ret, deg, max_degree, n, dwtmatr) ==
    IF deg >= max_degree THEN dwtmatr
    ELSE multiscales_loop(apply_H_filter(intermediate_ret, deg), deg + 1,
                          max_degree, n,
                          Append(dwtmatr,
                                 PySlice(apply_G_filter(intermediate_ret, deg), 0, n)))

\* The result is indexed by degree, from 0.
dwt_compute_multiscales(ecg, max_degree) ==
    LET rows == multiscales_loop(ecg, 0, max_degree, PyLen(ecg), << >>)
    IN  [deg \in 0..(max_degree - 1) |-> rows[deg + 1]]

\* One window of the T / P peak search (the body of the loop of
\* _dwt_delinate_tp_peaks) is split at its statements.  tp_candidates is the
\* list peaks of lines 197-200: the local maxima of |dwt_local| that reach
\* the height (1 / sqrt(m * d)) * rms and exceed 0.025 * max(dwt_local),
\* with 0 put in front when the window starts positive.
tp_candidates(dwt_local, absloc, n, m, d) ==
    LET sumsq == SumSq3(dwt_local, 0, n - 1)
        mx    == ArrMax(dwt_local)
    IN  { p \in find_peaks(absloc) :
            /\ RmsHeightReached(absloc[p], sumsq, n, m, d)
            /\ 40 * absloc[p] > mx }
        \cup (IF dwt_local[0] > 0 THEN {0} ELSE {})

\* Lines 204-205: the candidates that start a positive-then-negative pair.
tp_correct_sign(dwt_local, peaks, n) ==
    { p \in peaks : LET nxt == NextOf(peaks, n, p)
                    IN  nxt < n /\ dwt_local[p] > 0 /\ dwt_local[nxt] < 0 }

\* Line 207: signal_zerocrossings(dwt_local[idx_peak: idx_peak_nxt]).
tp_crossings(dwt_local, peaks, n, p) ==
    signal_zerocrossings(PySlice(dwt_local, p, NextOf(peaks, n, p)))

\* Lines 204-218: raised is "IndexError" when signal_zerocrossings finds no
\* crossing between the two candidates of a pair.
tp_pick(dwt_local, peaks, n, srch_idx_start, attribute) ==
    LET pairs == tp_correct_sign(dwt_local, peaks, n)
    IN  IF \E p \in pairs : tp_crossings(dwt_local, peaks, n, p) = {}
        THEN [raised |-> "IndexError", slot |-> NaN]
        ELSE IF pairs = {} THEN [raised |-> "", slot |-> NaN]
        ELSE LET p == IF attribute = "tpeak" THEN FirstOf(pairs, n)
                      ELSE LastOf(pairs, n)
             IN  [raised |-> "",
                  slot |-> Val(FirstOf(tp_crossings(dwt_local, peaks, n, p), n) + p
                               + srch_idx_start)]

\* Lines 193-203: an empty window gives nan.
tp_search(dwt_local, srch_idx_start, m, d, attribute) ==
    IF PyLen(dwt_local) = 0 THEN [raised |-> "", slot |-> NaN]
    ELSE tp_pick(dwt_local,
                 tp_candidates(dwt_local, AbsArr(dwt_local), PyLen(dwt_local), m, d),
                 PyLen(dwt_local), srch_idx_start, attribute)

tp_window(row, srch_idx_start, srch_idx_end, m, d, attribute) ==
    tp_search(PySlice(row, srch_idx_start, srch_idx_end), srch_idx_start,
              m, d, attribute)

\* _dwt_delinate_tp_peaks (sampling_rate is the analysis rate).
srch_bndry(sampling_rate) == (45 * sampling_rate) \div 2000

dwt_tpeak(rpeaks, dwtmatr, sampling_rate, i) ==
    tp_window(dwtmatr[3 + dwt_compensate_degree(sampling_rate)],
              rpeaks[i] + srch_bndry(sampling_rate),
              rpeaks[i + 1] - srch_bndry(sampling_rate) * 8,
              16, 1, "tpeak")

\* The P search run on the window that follows the R-peak.
dwt_ppeak_after_rpeak(rpeaks, dwtmatr, sampling_rate, i) ==
    dwt_tpeak(rpeaks, dwtmatr, sampling_rate, i)

dwt_ppeak(rpeaks, dwtmatr, sampling_rate, i) ==
    tp_window(dwtmatr[2 + dwt_compensate_degree(sampling_rate)],
              rpeaks[i] - (sampling_rate \div 2),
              rpeaks[i] - srch_bndry(sampling_rate),
              1, 2500, "ppeak")

\* The two searches of interval i, then the rest of the loop.
RECURSIVE tp_peaks_loop(_, _, _, _, _, _)
tp_peaks_step(rpeaks, dwtmatr, sampling_rate, i, tpeak, ppeak, t, p) ==
    IF t.raised # "" \/ p.raised # ""
    THEN [raised |-> "IndexError", tpeak |-> tpeak, ppeak |-> ppeak]
    ELSE tp_peaks_loop(rpeaks, dwtmatr, sampling_rate, i + 1,
                       Append(tpeak, t.slot), Append(ppeak, p.slot))

tp_peaks_loop(rpeaks, dwtmatr, sampling_rate, i, tpeak, ppeak) ==
    IF i > Len(rpeaks) - 1 THEN [raised |-> "", tpeak |-> tpeak, ppeak |-> ppeak]
    ELSE tp_peaks_step(rpeaks, dwtmatr, sampling_rate, i, tpeak, ppeak,
                       dwt_tpeak(rpeaks, dwtmatr, sampling_rate, i),
                       dwt_ppeak(rpeaks, dwtmatr, sampling_rate, i))

dwt_delinate_tp_peaks(rpeaks, dwtmatr, sampling_rate) ==
    tp_peaks_loop(rpeaks, dwtmatr, sampling_rate, 1, << >>, << >>)

\* _dwt_delinate_tp_onsets_offsets.  The onset threshold is wnum / 5 of the
\* last maximum, over a window of dur / 10 seconds; the offset side keeps the
\* defaults (0.4 and 0.3 s).  An index into an empty result (IndexError) is
\* caught and gives nan.
onset_local(dwt_local, pks, num, den, srch_idx_start) ==
    LET last == LastOf(pks, PyLen(dwt_local))
        cand == LastTrue([j \in 0..(last - 1) |->
                            den * dwt_local[j] < num * dwt_local[last]], 0, last - 1)
    IN  IF pks = {} \/ cand < 0 THEN NaN ELSE Val(cand + srch_idx_start)

tp_onset_window(dwt_local, wnum, srch_idx_start) ==
    onset_local(dwt_local, find_peaks(dwt_local), wnum, 5, srch_idx_start)

tp_onset(row, peak, sampling_rate, wnum, dur) ==
    tp_onset_window(PySlice(row, peak - ((dur * sampling_rate) \div 10), peak),
                    wnum, peak - ((dur * sampling_rate) \div 10))

offset_local(dwt_local, pks, num, den, srch_idx_start) ==
    LET n     == PyLen(dwt_local)
        first == FirstOf(pks, n)
        cand  == FirstTrue([j \in first..(n - 1) |->
                              den * dwt_local[j] > num * dwt_local[first]],
                           first, n - 1)
    IN  IF pks = {} \/ cand > n - 1 THEN NaN ELSE Val(cand + srch_idx_start)

tp_offset_window(dwt_local, srch_idx_start) ==
    offset_local(dwt_local, find_peaks(Negated(dwt_local)), 2, 5, srch_idx_start)

tp_offset(row, peak, sampling_rate) ==
    tp_offset_window(PySlice(row, peak, peak + ((3 * sampling_rate) \div 10)), peak)

RECURSIVE tp_onsets_offsets_loop(_, _, _, _, _, _, _, _)
tp_onsets_offsets_loop(peaks, row, sampling_rate, wnum, dur, i, onsets, offsets) ==
    IF i > Len(peaks) THEN [onsets |-> onsets, offsets |-> offsets]
    ELSE IF IsNaN(peaks[i])
         THEN tp_onsets_offsets_loop(peaks, row, sampling_rate, wnum, dur, i + 1,
                                     Append(onsets, NaN), offsets)
         ELSE tp_onsets_offsets_loop(peaks, row, sampling_rate, wnum, dur, i + 1,
                  Append(onsets, tp_onset(row, peaks[i][1], sampling_rate, wnum, dur)),
                  Append(offsets, tp_offset(row, peaks[i][1], sampling_rate)))

dwt_delinate_tp_onsets_offsets(peaks, dwtmatr, sampling_rate, wnum, dur) ==
    tp_onsets_offsets_loop(peaks, dwtmatr[2 + dwt_compensate_degree(sampling_rate)],
                           sampling_rate, wnum, dur, 1, << >>, << >>)

\* _dwt_delinate_qrs_bounds.  Indexing the empty result of find_peaks or of
\* np.where raises IndexError, which nothing here catches.
Raising(slot) ==
    IF IsNaN(slot) THEN [raised |-> "IndexError", slot |-> NaN]
    ELSE [raised |-> "", slot |-> slot]

\* -dwt_local[j] < 0.5 * -dwt_local[last], left of the last maximum of
\* -dwt_local.
qrs_onset_window(negated, srch_idx_start) ==
    Raising(onset_local(negated, find_peaks(negated), 1, 2, srch_idx_start))

qrs_onset(row, ppeak, rpeak) ==
    qrs_onset_window(Negated(PySlice(row, ppeak, rpeak)), ppeak)

\* dwt_local[j] < 0.5 * dwt_local[first], from the first maximum on.
qrs_offset_window(dwt_local, srch_idx_start) ==
    Raising(offset_local(Negated(dwt_local), find_peaks(dwt_local), 1, 2,
                         srch_idx_start))

qrs_offset(row, rpeak, tpeak) ==
    qrs_offset_window(PySlice(row, rpeak, tpeak), rpeak)

RECURSIVE qrs_bounds_loop(_, _, _, _, _, _, _)
qrs_bounds_offset(rpeaks, row, ppeaks, tpeaks, i, onsets, offsets, off) ==
    IF off.raised # ""
    THEN [raised |-> off.raised, onsets |-> onsets, offsets |-> offsets]
    ELSE qrs_bounds_loop(rpeaks, row, ppeaks, tpeaks, i + 1, onsets,
                         Append(offsets, off.slot))

qrs_bounds_onset(rpeaks, row, ppeaks, tpeaks, i, onsets, offsets, on) ==
    IF on.raised # ""
    THEN [raised |-> on.raised, onsets |-> onsets, offsets |-> offsets]
    ELSE IF IsNaN(tpeaks[i])
    THEN qrs_bounds_loop(rpeaks, row, ppeaks, tpeaks, i + 1,
                         Append(onsets, on.slot), Append(offsets, NaN))
    ELSE qrs_bounds_offset(rpeaks, row, ppeaks, tpeaks, i,
                           Append(onsets, on.slot), offsets,
                           qrs_offset(row, rpeaks[i], tpeaks[i][1]))

qrs_bounds_loop(rpeaks, row, ppeaks, tpeaks, i, onsets, offsets) ==
    IF i > Len(rpeaks) - 1
    THEN [raised |-> "", onsets |-> onsets, offsets |-> offsets]
    ELSE IF IsNaN(ppeaks[i])
    THEN qrs_bounds_loop(rpeaks, row, ppeaks, tpeaks, i + 1,
                         Append(onsets, NaN), offsets)
    ELSE qrs_bounds_onset(rpeaks, row, ppeaks, tpeaks, i, onsets, offsets,
                          qrs_onset(row, ppeaks[i][1], rpeaks[i]))

dwt_delinate_qrs_bounds(rpeaks, dwtmatr, ppeaks, tpeaks, sampling_rate) ==
    qrs_bounds_loop(rpeaks, dwtmatr[2 + dwt_compensate_degree(sampling_rate)],
                    ppeaks, tpeaks, 1, << >>, << >>)

\* The list without the [:-1].
Last_kept(x) == x
\* x[:-1] and x[1:] of a list.
DropLast(x) == IF x = << >> THEN << >> ELSE SubSeq(x, 1, Len(x) - 1)
DropFirst(x) == IF x = << >> THEN << >> ELSE Tail(x)

NoLists ==
    [tpeaks |-> << >>, ppeaks |-> << >>, qrs_onsets |-> << >>,
     qrs_offsets |-> << >>, ponsets |-> << >>, poffsets |-> << >>,
     tonsets |-> << >>, toffsets |-> << >>]

\* The analysis rate of the DWT method: the default of _dwt_ecg_delinator's
\* analysis_sampling_rate, which ecg_delineate never overrides.
analysis_sampling_rate == 2000

\* Lines 140-161, once the QRS bounds are known: the lists of the four
\* searches, and the lists resampled back and trimmed (lines 152-161).
dwt_after_qrs(dwtmatr, tp, qrs, p, t, sampling_rate) ==
    [raised |-> "",
     lists |-> [tpeaks |-> tp.tpeak, ppeaks |-> tp.ppeak,
                qrs_onsets |-> qrs.onsets, qrs_offsets |-> qrs.offsets,
                ponsets |-> p.onsets, poffsets |-> p.offsets,
                tonsets |-> t.onsets, toffsets |-> t.offsets],
     waves |->
          [ECG_T_Peaks   |-> dwt_resample_points(tp.tpeak, analysis_sampling_rate,
                                                 sampling_rate),
           ECG_T_Onsets  |-> DropLast(dwt_resample_points(t.onsets,
                                          analysis_sampling_rate, sampling_rate)),
           ECG_T_Offsets |-> dwt_resample_points(t.offsets, analysis_sampling_rate,
                                                 sampling_rate),
           ECG_P_Peaks   |-> DropFirst(dwt_resample_points(tp.ppeak,
                                           analysis_sampling_rate, sampling_rate)),
           ECG_P_Onsets  |-> DropFirst(dwt_resample_points(p.onsets,
                                           analysis_sampling_rate, sampling_rate)),
           ECG_P_Offsets |-> dwt_resample_points(p.offsets, analysis_sampling_rate,
                                                 sampling_rate),
           ECG_R_Onsets  |-> DropFirst(dwt_resample_points(qrs.onsets,
                                           analysis_sampling_rate, sampling_rate)),
           ECG_R_Offsets |-> dwt_resample_points(qrs.offsets, analysis_sampling_rate,
                                                 sampling_rate)]]

\* Lines 134-150, once the T and P peaks are known.
dwt_after_peaks(dwtmatr, tp, qrs, sampling_rate) ==
    IF qrs.raised # ""
    THEN [raised |-> qrs.raised,
          lists |-> [NoLists EXCEPT !.tpeaks = tp.tpeak, !.ppeaks = tp.ppeak],
          waves |-> << >>]
    ELSE dwt_after_qrs(dwtmatr, tp, qrs,
             dwt_delinate_tp_onsets_offsets(tp.ppeak, dwtmatr,
                                            analysis_sampling_rate, 2, 3),
             dwt_delinate_tp_onsets_offsets(tp.tpeak, dwtmatr,
                                            analysis_sampling_rate, 3, 6),
             sampling_rate)

\* Lines 128-139, once the signal is decomposed.
dwt_searches(dwtmatr, rpeaks_resampled, tp, sampling_rate) ==
    IF tp.raised # ""
    THEN [raised |-> tp.raised, lists |-> NoLists, waves |-> << >>]
    ELSE dwt_after_peaks(dwtmatr, tp,
             dwt_delinate_qrs_bounds(rpeaks_resampled, dwtmatr, tp.ppeak,
                                     tp.tpeak, analysis_sampling_rate),
             sampling_rate)

dwt_decomposed(dwtmatr, rpeaks_resampled, sampling_rate) ==
    dwt_searches(dwtmatr, rpeaks_resampled,
                 dwt_delinate_tp_peaks(rpeaks_resampled, dwtmatr,
                                       analysis_sampling_rate),
                 sampling_rate)

\* _dwt_ecg_delinator: raised, the lists of the four searches as they were
\* produced (at the analysis rate), and the dictionary that is returned.
\* rpeaks is an array of integers, so none of its entries is dropped.
dwt_ecg_delinator(ecg, rpeaks, sampling_rate) ==
    dwt_decomposed(
        dwt_compute_multiscales(
            signal_resample(ecg, sampling_rate, analysis_sampling_rate), 9),
        [i \in 1..Len(rpeaks) |->
            TruncDiv(rpeaks[i] * analysis_sampling_rate, sampling_rate)],
        sampling_rate)

(***************************************************************************)
(* WAVELET METHOD (CWT)                                                    *)
(***************************************************************************)
\* pywt.cwt(ecg, scales, 'gaus1'): the row of scale s is minus the first
\* difference of the zero-padded signal convolved with the Gaussian
\* exp(-(n / s)^2), n in -5s..5s.  The Gaussian is tabulated in sixteenths
\* (entry |n| + 1), its tail that rounds to zero left out; the positive
\* factor common to a row cancels in every comparison made on that row.
gaus1_scale4 == <<16, 15, 12, 9, 6, 3, 2, 1>>
gaus1_scale16 ==
    <<16, 16, 16, 15, 15, 15, 14, 13, 12, 12, 11, 10, 9, 8, 7, 7, 6, 5, 5,
      4, 3, 3, 2, 2, 2, 1, 1, 1, 1, 1>>

cwt_row(ecg, gaus) ==
    LET n    == PyLen(ecg)
        half == Len(gaus) - 1
        step == Stored([j \in 0..n |-> At0(ecg, n, j) - At0(ecg, n, j - 1)])
        term(i) == [j \in Max2(0, i - half)..Min2(n, i + half) |->
                      step[j] * gaus[Abs(i - j) + 1]]
    IN  Stored([i \in 0..(n - 1) |->
                  -SumRange(term(i), Max2(0, i - half), Min2(n, i + half))])

\* cwtmatr, of which the code reads rows 2 (scale 4) and 4 (scale 16).
cwt(ecg) ==
    [r \in {2, 4} |-> IF r = 2 THEN cwt_row(ecg, gaus1_scale4)
                               ELSE cwt_row(ecg, gaus1_scale16)]

\* scipy.signal.peak_prominences of the peak p of x: the bases are the
\* lowest samples nearest to p on each side, up to the first higher sample.
MinRange(a, lo, hi) == -MaxRange(Negated(a), lo, hi)
left_base(x, p) ==
    LET stop == LastTrue([j \in 0..(p - 1) |-> x[j] > x[p]], 0, p - 1)
        lmin == MinRange(x, stop + 1, p)
    IN  LastTrue([j \in (stop + 1)..p |-> x[j] = lmin], stop + 1, p)
right_base(x, p) ==
    LET n    == PyLen(x)
        stop == FirstTrue([j \in (p + 1)..(n - 1) |-> x[j] > x[p]], p + 1, n - 1)
        rmin == MinRange(x, p, stop - 1)
    IN  FirstTrue([j \in p..(stop - 1) |-> x[j] = rmin], p, stop - 1)
prominence(x, p) == x[p] - Max2(x[left_base(x, p)], x[right_base(x, p)])

\* find_peaks(x, height=0.0, prominence=(pnum / pden) * max(x)), x non-empty.
find_peaks_prominent(x, pnum, pden) ==
    { p \in find_peaks(x) :
        /\ x[p] >= 0
        /\ pden * prominence(x, p) >= pnum * ArrMax(x) }

\* np.argmax of a non-empty array: the first index of the maximum.
ArgMax(x) ==
    LET n == PyLen(x)
    IN  FirstTrue([j \in 0..(n - 1) |-> x[j] = ArrMax(x)], 0, n - 1)

\* _find_tppeaks, one pair (index_cur, index_next) of the right signs:
\* lines 564-568.  signal_zerocrossings(...)[0] raises IndexError on no
\* crossing, np.argmax raises ValueError on an empty slice.
find_tppeaks_around(ecg, index_zero_cr, nb_idx) ==
    LET around == PySlice(ecg, index_zero_cr - nb_idx, index_zero_cr + nb_idx)
    IN  IF PyLen(around) = 0 THEN [raised |-> "ValueError", at |-> 0]
        ELSE [raised |-> "", at |-> ArgMax(around) + (index_zero_cr - nb_idx)]

find_tppeaks_pair(ecg, row, index_cur, index_next, sampling_rate) ==
    LET crossings == signal_zerocrossings(PySlice(row, index_cur, index_next))
    IN  IF crossings = {} THEN [raised |-> "IndexError", at |-> 0]
        ELSE find_tppeaks_around(ecg, FirstOf(crossings, PyLen(row)) + index_cur,
                                 TruncDiv(5 * sampling_rate, 100))

\* _find_tppeaks: the loop over consecutive kept peaks, from index_cur on.
\* keep_tp is the set of the kept indices, which the code holds in
\* increasing order.
RECURSIVE find_tppeaks_loop(_, _, _, _, _, _)
find_tppeaks_append(ecg, row, keep_tp, sampling_rate, index_next, tppeaks, index_max) ==
    IF index_max.raised # "" THEN [raised |-> index_max.raised, tppeaks |-> tppeaks]
    ELSE find_tppeaks_loop(ecg, row, keep_tp, sampling_rate, index_next,
                           Append(tppeaks, index_max.at))

find_tppeaks_step(ecg, row, keep_tp, sampling_rate, index_cur, index_next, tppeaks) ==
    IF index_next >= PyLen(row) THEN [raised |-> "", tppeaks |-> tppeaks]
    ELSE IF ~(row[index_cur] < 0 /\ row[index_next] > 0)
    THEN find_tppeaks_loop(ecg, row, keep_tp, sampling_rate, index_next, tppeaks)
    ELSE find_tppeaks_append(ecg, row, keep_tp, sampling_rate, index_next, tppeaks,
             find_tppeaks_pair(ecg, row, index_cur, index_next, sampling_rate))

find_tppeaks_loop(ecg, row, keep_tp, sampling_rate, index_cur, tppeaks) ==
    find_tppeaks_step(ecg, row, keep_tp, sampling_rate, index_cur,
                      NextOf(keep_tp, PyLen(row), index_cur), tppeaks)

find_tppeaks(ecg, row, keep_tp, sampling_rate) ==
    IF keep_tp = {} THEN [raised |-> "", tppeaks |-> << >>]
    ELSE find_tppeaks_loop(ecg, row, keep_tp, sampling_rate,
                           FirstOf(keep_tp, PyLen(row)), << >>)

\* _peaks_delineator, lines 524-535: the peaks of |search_window| that reach
\* 0.25 * rms and exceed 0.125 * max(search_window), as indices of the row.
significant_peaks_tp(search_window, absw, n, start) ==
    LET sumsq == SumSq3(search_window, 0, n - 1)
        threshold8 == ArrMax(search_window)
    IN  { p + start :
            p \in { q \in find_peaks(absw) :
                      /\ RmsHeightReached(absw[q], sumsq, n, 16, 1)
                      /\ 8 * absw[q] > threshold8 } }

\* max(search_window) raises ValueError on an empty window.
peaks_window(ecg, row, search_window, start, sampling_rate) ==
    IF PyLen(search_window) = 0 THEN [raised |-> "ValueError", tppeaks |-> << >>]
    ELSE find_tppeaks(ecg, row,
             significant_peaks_tp(search_window, AbsArr(search_window),
                                  PyLen(search_window), start),
             sampling_rate)

\* _peaks_delineator, one R-R interval: the refined points of the window.
peaks_group(ecg, row, rpeaks, sampling_rate, i) ==
    peaks_window(ecg, row,
                 PySlice(row, rpeaks[i] + TruncDiv(9 * sampling_rate, 200),
                         rpeaks[i + 1] - TruncDiv(9 * sampling_rate, 200)),
                 rpeaks[i] + TruncDiv(9 * sampling_rate, 200), sampling_rate)

RECURSIVE peaks_delineator_loop(_, _, _, _, _, _)
peaks_delineator_step(ecg, row, rpeaks, sampling_rate, i, significant_peaks_groups, g) ==
    IF g.raised # ""
    THEN [raised |-> g.raised, groups |-> significant_peaks_groups]
    ELSE peaks_delineator_loop(ecg, row, rpeaks, sampling_rate, i + 1,
                               Append(significant_peaks_groups, g.tppeaks))

peaks_delineator_loop(ecg, row, rpeaks, sampling_rate, i, significant_peaks_groups) ==
    IF i > Len(rpeaks) - 1
    THEN [raised |-> "", groups |-> significant_peaks_groups]
    ELSE peaks_delineator_step(ecg, row, rpeaks, sampling_rate, i,
                               significant_peaks_groups,
                               peaks_group(ecg, row, rpeaks, sampling_rate, i))

\* Line 538: tpeaks, ppeaks = zip(*[(g[0], g[-1]) for g in groups]).  g[0]
\* raises IndexError on an empty group; with no group at all the unpacking
\* of zip() raises ValueError.
peaks_zip(done) ==
    IF done.raised # ""
    THEN [raised |-> done.raised, groups |-> done.groups,
          tpeaks |-> << >>, ppeaks |-> << >>]
    ELSE IF \E k \in 1..Len(done.groups) : done.groups[k] = << >>
    THEN [raised |-> "IndexError", groups |-> done.groups,
          tpeaks |-> << >>, ppeaks |-> << >>]
    ELSE IF done.groups = << >>
    THEN [raised |-> "ValueError", groups |-> done.groups,
          tpeaks |-> << >>, ppeaks |-> << >>]
    ELSE [raised |-> "", groups |-> done.groups,
          tpeaks |-> [k \in 1..Len(done.groups) |-> done.groups[k][1]],
          ppeaks |-> [k \in 1..Len(done.groups) |->
                        done.groups[k][Len(done.groups[k])]]]

\* _peaks_delineator.
peaks_delineator(ecg, rpeaks, sampling_rate) ==
    peaks_zip(peaks_delineator_loop(ecg, cwt(ecg)[4], rpeaks, sampling_rate,
                                    1, << >>))

\* np.where(a[s:e] < num / den)[0], epsilon being <<num, den>>.
BelowIn(a, s, e, eps) ==
    { j \in DOMAIN PySlice(a, s, e) : PySlice(a, s, e)[j] * eps[2] < eps[1] }

NotFound(raised, epsilon) ==
    [raised |-> raised, found |-> FALSE, at |-> 0, epsilon |-> epsilon]

\* _onset_offset_delineator, the "find onset" half of one iteration.  The
\* window and the comparison of line 442 / 445 read the same signed row:
\* cwtmatr[2] for the R-peaks, -cwtmatr[4] for the others.
onset_row(cwtmatr, peak_type) ==
    IF peak_type = "rpeaks" THEN cwtmatr[2] ELSE Negated(cwtmatr[4])

\* Lines 431-439.  epsilon is <<num, den>>, or << >> while the name is
\* unbound; a peak height of 0 leaves it as it was.
onset_epsilon(peak_type, height, epsilon_onset) ==
    IF peak_type = "rpeaks"
    THEN (IF height > 0 THEN <<height, 20>> ELSE epsilon_onset)
    ELSE IF peak_type = "ppeaks" THEN <<height, 2>> ELSE <<height, 4>>

\* Lines 441-452.
onset_candidates(row, nfirst, leftbase, eps) ==
    IF eps = << >> THEN NotFound("UnboundLocalError", eps)
    ELSE [raised |-> "", found |-> TRUE,
          at |-> LET candidate_onsets ==
                         { j + nfirst - 100 :
                             j \in BelowIn(row, nfirst - 100, nfirst, eps) }
                         \cup {leftbase}
                 IN  CHOOSE v \in candidate_onsets :
                         \A w \in candidate_onsets : w <= v,
          epsilon |-> eps]

\* Lines 430-440, last being wt_peaks[-1].
onset_last(row, search_window, last, start, peak_type, epsilon_onset) ==
    onset_candidates(row, last + start, left_base(search_window, last) + start,
                     onset_epsilon(peak_type, search_window[last], epsilon_onset))

\* Lines 426-428.
onset_peaks(row, search_window, wt_peaks, start, peak_type, epsilon_onset) ==
    IF wt_peaks = {} THEN NotFound("", epsilon_onset)
    ELSE onset_last(row, search_window, LastOf(wt_peaks, PyLen(search_window)),
                    start, peak_type, epsilon_onset)

\* Lines 412-424; max(search_window) raises ValueError on an empty window.
onset_window(row, search_window, start, peak_type, epsilon_onset) ==
    IF PyLen(search_window) = 0 THEN NotFound("ValueError", epsilon_onset)
    ELSE onset_peaks(row, search_window,
             find_peaks_prominent(search_window, 1,
                                  IF peak_type = "rpeaks" THEN 5 ELSE 10),
             start, peak_type, epsilon_onset)

find_onset(cwtmatr, index_peak, peak_type, half_wave_width, epsilon_onset) ==
    onset_window(onset_row(cwtmatr, peak_type),
                 PySlice(onset_row(cwtmatr, peak_type),
                         index_peak - half_wave_width, index_peak),
                 index_peak - half_wave_width, peak_type, epsilon_onset)

\* _onset_offset_delineator, the "find offset" half of one iteration, on
\* -cwtmatr[2] for the R-peaks and cwtmatr[4] for the others.
offset_row(cwtmatr, peak_type) ==
    IF peak_type = "rpeaks" THEN Negated(cwtmatr[2]) ELSE cwtmatr[4]

\* Lines 471-479.
offset_epsilon(peak_type, height, epsilon_offset) ==
    IF peak_type = "rpeaks"
    THEN (IF height > 0 THEN <<height, 8>> ELSE epsilon_offset)
    ELSE IF peak_type = "ppeaks" THEN <<9 * height, 10>> ELSE <<4 * height, 10>>

\* Lines 481-492.
offset_candidates(row, nlast, rightbase, eps) ==
    IF eps = << >> THEN NotFound("UnboundLocalError", eps)
    ELSE [raised |-> "", found |-> TRUE,
          at |-> LET candidate_offsets ==
                         { j + nlast : j \in BelowIn(row, nlast, nlast + 100, eps) }
                         \cup {rightbase}
                 IN  CHOOSE v \in candidate_offsets :
                         \A w \in candidate_offsets : v <= w,
          epsilon |-> eps]

\* Lines 470-480, first being wt_peaks[0].
offset_first(row, search_window, first, start, peak_type, epsilon_offset) ==
    offset_candidates(row, first + start, right_base(search_window, first) + start,
                      offset_epsilon(peak_type, search_window[first], epsilon_offset))

\* Lines 467-469.
offset_peaks(row, search_window, wt_peaks, start, peak_type, epsilon_offset) ==
    IF wt_peaks = {} THEN NotFound("", epsilon_offset)
    ELSE offset_first(row, search_window, FirstOf(wt_peaks, PyLen(search_window)),
                      start, peak_type, epsilon_offset)

\* Lines 455-465.
offset_window(row, search_window, start, peak_type, epsilon_offset) ==
    IF PyLen(search_window) = 0 THEN NotFound("ValueError", epsilon_offset)
    ELSE offset_peaks(row, search_window,
             find_peaks_prominent(search_window, 1,
                                  IF peak_type = "rpeaks" THEN 2 ELSE 10),
             start, peak_type, epsilon_offset)

find_offset(cwtmatr, index_peak, peak_type, half_wave_width, epsilon_offset) ==
    offset_window(offset_row(cwtmatr, peak_type),
                  PySlice(offset_row(cwtmatr, peak_type),
                          index_peak, index_peak + half_wave_width),
                  index_peak, peak_type, epsilon_offset)

\* _onset_offset_delineator: the loop over the peaks.  An iteration that
\* finds no onset appends nothing; one that finds an onset and no offset
\* appends the onset only.
RECURSIVE onset_offset_loop(_, _, _, _, _, _, _, _, _)
onset_offset_offset(cwtmatr, peaks, peak_type, half_wave_width, k, onsets, offsets, epsilon_onset, off) ==
    IF off.raised # ""
    THEN [raised |-> off.raised, onsets |-> onsets, offsets |-> offsets]
    ELSE IF ~off.found
    THEN onset_offset_loop(cwtmatr, peaks, peak_type, half_wave_width, k + 1,
                           onsets, offsets, epsilon_onset, off.epsilon)
    ELSE onset_offset_loop(cwtmatr, peaks, peak_type, half_wave_width, k + 1,
                           onsets, Append(offsets, Val(off.at)),
                           epsilon_onset, off.epsilon)

onset_offset_onset(cwtmatr, peaks, peak_type, half_wave_width, k, onsets, offsets, epsilon_offset, on) ==
    IF on.raised # ""
    THEN [raised |-> on.raised, onsets |-> onsets, offsets |-> offsets]
    ELSE IF ~on.found
    THEN onset_offset_loop(cwtmatr, peaks, peak_type, half_wave_width, k + 1,
                           onsets, offsets, on.epsilon, epsilon_offset)
    ELSE onset_offset_offset(cwtmatr, peaks, peak_type, half_wave_width, k,
                             Append(onsets, Val(on.at)), offsets, on.epsilon,
                             find_offset(cwtmatr, peaks[k], peak_type,
                                         half_wave_width, epsilon_offset))

onset_offset_loop(cwtmatr, peaks, peak_type, half_wave_width, k, onsets, offsets, epsilon_onset, epsilon_offset) ==
    IF k > Len(peaks)
    THEN [raised |-> "", onsets |-> onsets, offsets |-> offsets]
    ELSE onset_offset_onset(cwtmatr, peaks, peak_type, half_wave_width, k,
                            onsets, offsets, epsilon_offset,
                            find_onset(cwtmatr, peaks[k], peak_type,
                                       half_wave_width, epsilon_onset))

onset_offset_delineator(ecg, peaks, peak_type, sampling_rate) ==
    onset_offset_loop(cwt(ecg), peaks, peak_type, TruncDiv(sampling_rate, 10),
                      1, << >>, << >>, << >>, << >>)

\* _ecg_delinator_cwt: raised, the groups of refined points that
\* _peaks_delineator built, and the dictionary that is returned.
Slots(x) == [k \in 1..Len(x) |-> Val(x[k])]

\* Lines 381-389.
cwt_info(tp, qrs, p, t) ==
    IF t.raised # "" THEN [raised |-> t.raised, groups |-> tp.groups, waves |-> << >>]
    ELSE [raised |-> "", groups |-> tp.groups,
          waves |-> [ECG_P_Peaks   |-> Slots(tp.ppeaks),
                     ECG_T_Peaks   |-> Slots(tp.tpeaks),
                     ECG_R_Onsets  |-> qrs.onsets,
                     ECG_R_Offsets |-> qrs.offsets,
                     ECG_P_Onsets  |-> p.onsets,
                     ECG_P_Offsets |-> p.offsets,
                     ECG_T_Onsets  |-> t.onsets,
                     ECG_T_Offsets |-> t.offsets]]

\* Lines 377-379.
cwt_after_p(ecg, sampling_rate, tp, qrs, p) ==
    IF p.raised # ""
    THEN [raised |-> p.raised, groups |-> tp.groups, waves |-> << >>]
    ELSE cwt_info(tp, qrs, p,
             onset_offset_delineator(ecg, tp.tpeaks, "tpeaks", sampling_rate))

\* Lines 372-374.
cwt_after_qrs(ecg, sampling_rate, tp, qrs) ==
    IF qrs.raised # ""
    THEN [raised |-> qrs.raised, groups |-> tp.groups, waves |-> << >>]
    ELSE cwt_after_p(ecg, sampling_rate, tp, qrs,
             onset_offset_delineator(ecg, tp.ppeaks, "ppeaks", sampling_rate))

\* Lines 367-369.
cwt_after_peaks(ecg, rpeaks, sampling_rate, tp) ==
    IF tp.raised # ""
    THEN [raised |-> tp.raised, groups |-> tp.groups, waves |-> << >>]
    ELSE cwt_after_qrs(ecg, sampling_rate, tp,
             onset_offset_delineator(ecg, rpeaks, "rpeaks", sampling_rate))

ecg_delinator_cwt(ecg, rpeaks, sampling_rate) ==
    cwt_after_peaks(ecg, rpeaks, sampling_rate,
                    peaks_delineator(ecg, rpeaks, sampling_rate))

(***************************************************************************)
(* DERIVATIVE METHOD                                                       *)
(***************************************************************************)
\* epochs_create(ecg, rpeaks, epochs_start=-0.35, epochs_end=0.5), one
\* epoch: the samples from 0.35 s before to 0.5 s after the R-peak that the
\* signal holds, labelled by their time from the R-peak (label 0 at rpeak).
\* zero is the position of label 0 in the epoch.
epochs_create(ecg, rpeak, sampling_rate) ==
    LET n     == PyLen(ecg)
        first == Max2(0, rpeak - TruncDiv(35 * sampling_rate, 100))
        last  == Min2(n - 1, rpeak + TruncDiv(5 * sampling_rate, 10))
    IN  [Signal |-> Stored([i \in 0..(last - first) |-> ecg[first + i]]),
         zero   |-> rpeak - first]

\* signal_findpeaks(x, height_min=(1 / 20) * ptp): the local maxima that
\* are strictly greater than both neighbours and reach the height floor.
signal_findpeaks(x, ptp) ==
    { p \in 1..(PyLen(x) - 2) :
        /\ x[p - 1] < x[p]
        /\ x[p + 1] < x[p]
        /\ 20 * x[p] >= ptp }

\* max - min of a segment; 0 for an empty one, where nothing is searched.
PeakToPeak(x) ==
    IF PyLen(x) = 0 THEN 0 ELSE ArrMax(x) - MinRange(x, 0, PyLen(x) - 1)

\* signal_smooth(x, size): moving average over a window of int(size)
\* samples, kept as the window sum (the positive factor does not move the
\* argmax taken afterwards).
signal_smooth(x, size) ==
    LET n == PyLen(x)
        w == Max2(1, size)
        padded == [j \in (-w)..(n + w) |-> At0(x, n, j)]
    IN  Stored([i \in 0..(n - 1) |->
                  SumRange(padded, i - (w \div 2), i - (w \div 2) + w - 1)])

\* np.gradient of an array of at least two samples, doubled.
gradient(x) ==
    LET n == PyLen(x)
    IN  Stored([i \in 0..(n - 1) |->
                  IF i = 0 THEN 2 * (x[1] - x[0])
                  ELSE IF i = n - 1 THEN 2 * (x[n - 1] - x[n - 2])
                  ELSE x[i + 1] - x[i - 1]])

\* np.argmax(np.gradient(np.gradient(signal_smooth(segment, size=R / 10)))).
sharpest_bend(segment, R) ==
    ArgMax(gradient(gradient(signal_smooth(segment, R \div 10))))

\* The result of a helper that returns (index, position): None is the empty
\* slot.
NoPeak == [index |-> NaN, pos |-> NaN]

\* signal_findpeaks(sign * segment["Signal"], height_min=0.05 * (max - min)).
segment_peaks(segment) == signal_findpeaks(segment, PeakToPeak(segment))
segment_troughs(segment) == signal_findpeaks(Negated(segment), PeakToPeak(segment))

\* _ecg_delineator_derivative_Q; segment = heartbeat[:0] holds the samples
\* labelled up to 0.
derivative_Q(rpeak, heartbeat, R) ==
    LET segment == PySlice(heartbeat.Signal, 0, heartbeat.zero + 1)
        Q == segment_troughs(segment)
    IN  IF Q = {} THEN NoPeak
        ELSE [index |-> Val(rpeak - (R - LastOf(Q, PyLen(segment)))),
              pos   |-> Val(LastOf(Q, PyLen(segment)))]

\* _ecg_delineator_derivative_P.
derivative_P(rpeak, heartbeat, R, Q) ==
    LET segment == PySlice(heartbeat.Signal, 0, Q[1])
        P == segment_peaks(segment)
    IN  IF IsNaN(Q) THEN NoPeak
        ELSE IF P = {} THEN NoPeak
        ELSE [index |-> Val(rpeak - (R - LastOf(P, PyLen(segment)))),
              pos   |-> Val(LastOf(P, PyLen(segment)))]

\* _ecg_delineator_derivative_S; segment = heartbeat[0:] holds the samples
\* labelled from 0 on.
derivative_S(rpeak, heartbeat, R) ==
    LET segment == PySlice(heartbeat.Signal, heartbeat.zero, PyLen(heartbeat.Signal))
        S == segment_troughs(segment)
    IN  IF S = {} THEN NoPeak
        ELSE [index |-> Val(rpeak + FirstOf(S, PyLen(segment))),
              pos   |-> Val(FirstOf(S, PyLen(segment)))]

\* _ecg_delineator_derivative_T.
derivative_T(rpeak, heartbeat, R, S) ==
    LET segment == PySlice(heartbeat.Signal, R + S[1], PyLen(heartbeat.Signal))
        T == segment_peaks(segment)
    IN  IF IsNaN(S) THEN NoPeak
        ELSE IF T = {} THEN NoPeak
        ELSE [index |-> Val(rpeak + S[1] + FirstOf(T, PyLen(segment))),
              pos   |-> Val(S[1] + FirstOf(T, PyLen(segment)))]

\* The P-onset searched left of the R-peak when there is no P-peak.
derivative_P_onset_unguarded(rpeak, heartbeat, R, P) ==
    LET segment == IF IsNaN(P) THEN PySlice(heartbeat.Signal, 0, R)
                   ELSE PySlice(heartbeat.Signal, 0, P[1])
    IN  IF PyLen(segment) < 2 THEN [raised |-> "ValueError", slot |-> NaN]
        ELSE [raised |-> "", slot |-> Val(rpeak - (R - sharpest_bend(segment, R)))]

\* _ecg_delineator_derivative_P_onset; np.gradient raises ValueError on
\* fewer than two samples.
derivative_P_onset(rpeak, heartbeat, R, P) ==
    LET segment == PySlice(heartbeat.Signal, 0, P[1])
    IN  IF IsNaN(P) THEN [raised |-> "", slot |-> NaN]
        ELSE IF PyLen(segment) < 2 THEN [raised |-> "ValueError", slot |-> NaN]
        ELSE [raised |-> "", slot |-> Val(rpeak - (R - sharpest_bend(segment, R)))]

\* _ecg_delineator_derivative_T_offset.
derivative_T_offset(rpeak, heartbeat, R, T) ==
    LET segment == PySlice(heartbeat.Signal, R + T[1], PyLen(heartbeat.Signal))
    IN  IF IsNaN(T) THEN [raised |-> "", slot |-> NaN]
        ELSE IF PyLen(segment) < 2 THEN [raised |-> "ValueError", slot |-> NaN]
        ELSE [raised |-> "",
              slot |-> Val(rpeak + T[1] + sharpest_bend(segment, R))]

\* One iteration of the loop of _ecg_delineator_derivative, split at its
\* statements: lines 611-612, 599-608, 591-604.
derivative_bounds(Q, P, S, T, P_onset, T_offset) ==
    IF P_onset.raised # "" THEN [raised |-> P_onset.raised]
    ELSE IF T_offset.raised # "" THEN [raised |-> T_offset.raised]
    ELSE [raised |-> "", Q |-> Q.index, P |-> P.index, S |-> S.index,
          T |-> T.index, P_onset |-> P_onset.slot, T_offset |-> T_offset.slot]

derivative_PT(rpeak, heartbeat, R, Q, P, S, T) ==
    derivative_bounds(Q, P, S, T,
                      derivative_P_onset(rpeak, heartbeat, R, P.pos),
                      derivative_T_offset(rpeak, heartbeat, R, T.pos))

derivative_QS(rpeak, heartbeat, R, Q, S) ==
    derivative_PT(rpeak, heartbeat, R, Q,
                  derivative_P(rpeak, heartbeat, R, Q.pos), S,
                  derivative_T(rpeak, heartbeat, R, S.pos))

\* R is the position of the smallest label above 0; np.min of an empty
\* array raises ValueError when the epoch ends at the R-peak.
derivative_heartbeat(rpeak, heartbeat) ==
    IF heartbeat.zero + 1 >= PyLen(heartbeat.Signal) THEN [raised |-> "ValueError"]
    ELSE derivative_QS(rpeak, heartbeat, heartbeat.zero + 1,
                       derivative_Q(rpeak, heartbeat, heartbeat.zero + 1),
                       derivative_S(rpeak, heartbeat, heartbeat.zero + 1))

derivative_beat(ecg, rpeak, sampling_rate) ==
    derivative_heartbeat(rpeak, epochs_create(ecg, rpeak, sampling_rate))

RECURSIVE derivative_loop(_, _, _, _, _)
\* A P-peak appended only when it was found.
derivative_step_found_only(ecg, rpeaks, sampling_rate, i, out, b) ==
    IF b.raised # "" THEN [raised |-> b.raised, waves |-> << >>]
    ELSE derivative_loop(ecg, rpeaks, sampling_rate, i + 1,
            [ECG_P_Peaks   |-> IF IsNaN(b.P) THEN out.ECG_P_Peaks
                               ELSE Append(out.ECG_P_Peaks, b.P),
             ECG_Q_Peaks   |-> Append(out.ECG_Q_Peaks, b.Q),
             ECG_S_Peaks   |-> Append(out.ECG_S_Peaks, b.S),
             ECG_T_Peaks   |-> Append(out.ECG_T_Peaks, b.T),
             ECG_P_Onsets  |-> Append(out.ECG_P_Onsets, b.P_onset),
             ECG_T_Offsets |-> Append(out.ECG_T_Offsets, b.T_offset)])

derivative_step(ecg, rpeaks, sampling_rate, i, out, b) ==
    IF b.raised # "" THEN [raised |-> b.raised, waves |-> << >>]
    ELSE derivative_loop(ecg, rpeaks, sampling_rate, i + 1,
            [ECG_P_Peaks   |-> Append(out.ECG_P_Peaks, b.P),
             ECG_Q_Peaks   |-> Append(out.ECG_Q_Peaks, b.Q),
             ECG_S_Peaks   |-> Append(out.ECG_S_Peaks, b.S),
             ECG_T_Peaks   |-> Append(out.ECG_T_Peaks, b.T),
             ECG_P_Onsets  |-> Append(out.ECG_P_Onsets, b.P_onset),
             ECG_T_Offsets |-> Append(out.ECG_T_Offsets, b.T_offset)])

derivative_loop(ecg, rpeaks, sampling_rate, i, out) ==
    IF i > Len(rpeaks) THEN [raised |-> "", waves |-> out]
    ELSE derivative_step(ecg, rpeaks, sampling_rate, i, out,
                         derivative_beat(ecg, rpeaks[i], sampling_rate))

\* _ecg_delineator_derivative: raised, and the dictionary that is returned.
ecg_delineator_derivative(ecg, rpeaks, sampling_rate) ==
    derivative_loop(ecg, rpeaks, sampling_rate, 1,
                    [ECG_P_Peaks |-> << >>, ECG_Q_Peaks |-> << >>,
                     ECG_S_Peaks |-> << >>, ECG_T_Peaks |-> << >>,
                     ECG_P_Onsets |-> << >>, ECG_T_Offsets |-> << >>])

(***************************************************************************)
(* ecg_delineate: the dispatcher                                           *)
(***************************************************************************)
\* A Python string is the sequence of its characters.

str_derivative ==
    <<"d", "e", "r", "i", "v", "a", "t", "i", "v", "e">>
str_gradient ==
    <<"g", "r", "a", "d", "i", "e", "n", "t">>
str_cwt ==
    <<"c", "w", "t">>
str_continuous_wavelet_transform ==
    <<"c", "o", "n", "t", "i", "n", "u", "o", "u", "s", " ", "w", "a",
    "v", "e", "l", "e", "t", " ", "t", "r", "a", "n", "s", "f", "o", "r",
    "m">>
str_dwt ==
    <<"d", "w", "t">>
str_discrete_wavelet_transform ==
    <<"d", "i", "s", "c", "r", "e", "t", "e", " ", "w", "a", "v", "e",
    "l", "e", "t", " ", "t", "r", "a", "n", "s", "f", "o", "r", "m">>

\* str.lower(), character by character.
lower_char(c) ==
    LET ascii_uppercase ==
            <<"A", "B", "C", "D", "E", "F", "G", "H", "I", "J", "K", "L", "M",
              "N", "O", "P", "Q", "R", "S", "T", "U", "V", "W", "X", "Y", "Z">>
        ascii_lowercase ==
            <<"a", "b", "c", "d", "e", "f", "g", "h", "i", "j", "k", "l", "m",
              "n", "o", "p", "q", "r", "s", "t", "u", "v", "w", "x", "y", "z">>
    IN  IF \E k \in 1..26 : ascii_uppercase[k] = c
        THEN ascii_lowercase[CHOOSE k \in 1..26 : ascii_uppercase[k] = c]
        ELSE c
\* The method compared as it was given.
lower_left_out(s) == s
lower(s) == [k \in 1..Len(s) |-> lower_char(s[k])]

\* The three lists that the dispatcher tests the method against.
derivative_methods == {str_derivative, str_gradient}
cwt_methods == {str_cwt, str_continuous_wavelet_transform}
dwt_methods == {str_dwt, str_discrete_wavelet_transform}

\* The lists passed on as the strategy left them.
NaNs_kept(waves) == waves
\* [x for x in waves[feature] if ~np.isnan(x)]
RemoveNaNs(waves) == [feature \in DOMAIN waves |-> DropNaN(waves[feature])]

\* signal_formatpeaks(waves, desired_length): one column per feature, one
\* row per sample, 1 at each index of the feature's list and 0 elsewhere.
signal_formatpeaks(info, desired_length) ==
    [feature \in DOMAIN info |->
        [row \in 0..(desired_length - 1) |->
            IF \E k \in 1..Len(info[feature]) : info[feature][k] = Val(row)
            THEN 1 ELSE 0]]

(***************************************************************************)
(* The calls that are explored                                             *)
(***************************************************************************)
\* Beats per recording, at most.
MaxBeats == 3

\* Synthetic beats at 40 Hz: a QRS complex around the R-peak, a P wave
\* before it and a T wave after it, on a zero baseline.
synthetic_ecg(length, rpeaks, shapes) ==
    LET beat(shape, o) ==
            (IF "R" \in shape /\ o \in (-1)..1
             THEN <<-2, 8, -3>>[o + 2] ELSE 0)
            + (IF "P" \in shape /\ o \in (-7)..(-3)
               THEN <<1, 2, 3, 2, 1>>[o + 8] ELSE 0)
            + (IF "T" \in shape /\ o \in 5..11
               THEN <<1, 3, 5, 6, 5, 3, 1>>[o - 4] ELSE 0)
    IN  Stored([i \in 0..(length - 1) |->
                  SumRange([k \in 1..Len(rpeaks) |->
                               beat(shapes[k], i - rpeaks[k])],
                           1, Len(rpeaks))])

Recording(length, rpeaks, shapes) ==
    [ecg_cleaned |-> synthetic_ecg(length, rpeaks, shapes), rpeaks |-> rpeaks,
     sampling_rate |-> 40]
beat_positions(k) == [i \in 1..k |-> 30 * i - 8]

\* k complete beats, 0.75 s apart.
regular_recording(k) ==
    Recording(10 + 30 * k, beat_positions(k), [i \in 1..k |-> {"P", "R", "T"}])
\* The same R-peaks on a flat line.
flat_recording ==
    Recording(10 + 30 * MaxBeats, beat_positions(MaxBeats),
              [i \in 1..MaxBeats |-> {}])
\* A first beat without P wave.
no_first_P_recording ==
    Recording(10 + 30 * MaxBeats, beat_positions(MaxBeats),
              [i \in 1..MaxBeats |-> IF i = 1 THEN {"R"} ELSE {"P", "R", "T"}])
\* Less than half a second of signal, the R-peaks close to its start.
short_recording == Recording(16, <<1, 3, 5>>, [i \in 1..3 |-> {"R"}])

str_DWT == <<"D", "W", "T">>
str_Cwt == <<"C", "w", "t">>
str_Gradient == <<"G", "r", "a", "d", "i", "e", "n", "t">>
str_peaks == <<"p", "e", "a", "k", "s">>

\* The arguments of a call.  rpeaks is passed as an array, as a dictionary
\* holding it under "ECG_R_Peaks", or not at all (None).
Call(recording, rpeaks_kind, method_argument) ==
    [ecg_cleaned |-> recording.ecg_cleaned,
     rpeaks |-> [kind |-> rpeaks_kind,
                 ECG_R_Peaks |-> IF rpeaks_kind = "None" THEN << >>
                                 ELSE recording.rpeaks],
     sampling_rate |-> recording.sampling_rate,
     method |-> method_argument]
calls_explored ==
    { Call(r, "array", m) :
        r \in { regular_recording(k) : k \in 1..MaxBeats }
              \cup {flat_recording, no_first_P_recording, short_recording},
        m \in {str_derivative, str_cwt, str_dwt} }
    \cup { Call(regular_recording(2), "array", m) :
             m \in derivative_methods \cup cwt_methods \cup dwt_methods
                   \cup {str_DWT, str_Cwt, str_Gradient, str_peaks, << >>} }
    \cup { Call(short_recording, k, m) :
             k \in {"dict", "None"},
             m \in {str_derivative, str_cwt, str_dwt, str_peaks} }
    \cup { Call(regular_recording(8), "array", str_dwt) }

(***************************************************************************)
(* One call of ecg_delineate, statement by statement                       *)
(***************************************************************************)
VARIABLES
    args,       \* the arguments of the call; Python rebinds, never mutates them
    rpeaks,     \* the local name rpeaks
    method,     \* the local name method
    waves,      \* the local name waves; << >> while it is unbound
    dwt_points, \* the eight lists of _dwt_ecg_delinator before resampling back
    cwt_groups, \* significant_peaks_groups of _peaks_delineator
    signals,    \* the indicator table; << >> before it is built
    calls,      \* the functions and steps executed so far, in order
    raised,     \* the exception that ended the call, "" if none
    pc,         \* the statement to execute next
    previous    \* what the preceding call made with the same argument objects
                \* left to its caller; << >> when there was none

vars ==
    <<args, rpeaks, method, waves, dwt_points, cwt_groups, signals, calls, raised, pc,
      previous>>

Init ==
    /\ args \in calls_explored
    /\ rpeaks = args.rpeaks
    /\ method = args.method
    /\ waves = << >>
    /\ dwt_points = NoLists
    /\ cwt_groups = << >>
    /\ signals = << >>
    /\ calls = << >>
    /\ raised = ""
    /\ pc = "sanitize"
    /\ previous = << >>

\* Lines 77-82.  Without R-peaks the detector is run and its result is
\* subscripted with "ECG_R_Peaks"; ecg_peaks returns a pair (line 66), which
\* a string cannot subscript: TypeError.  A dictionary is unwrapped.
SanitizeInputs ==
    /\ pc = "sanitize"
    /\ IF rpeaks.kind = "None"
       THEN /\ calls' = Append(calls, "ecg_peaks")
            /\ raised' = "TypeError"
            /\ pc' = "raised"
            /\ rpeaks' = rpeaks
       ELSE /\ rpeaks' = [rpeaks EXCEPT !.kind = "array"]
            /\ pc' = "lower"
            /\ UNCHANGED <<calls, raised>>
    /\ UNCHANGED <<args, previous, method, waves, dwt_points, cwt_groups, signals>>

\* Line 84.
LowerMethod ==
    /\ pc = "lower"
    /\ method' = lower(method)
    /\ pc' = "derivative"
    /\ UNCHANGED <<args, previous, rpeaks, waves, dwt_points, cwt_groups, signals, calls, raised>>

\* What a strategy leaves behind: its dictionary, or its exception.
Outcome(result, name, next) ==
    /\ calls' = Append(calls, name)
    /\ IF result.raised # ""
       THEN /\ raised' = result.raised
            /\ pc' = "raised"
            /\ waves' = waves
       ELSE /\ raised' = raised
            /\ pc' = next
            /\ waves' = result.waves

\* Lines 85-88.
Derivative ==
    /\ pc = "derivative"
    /\ IF method \in derivative_methods
       THEN \E result \in {ecg_delineator_derivative(args.ecg_cleaned,
                                                     rpeaks.ECG_R_Peaks,
                                                     args.sampling_rate)} :
                Outcome(result, "_ecg_delineator_derivative", "cwt")
       ELSE /\ pc' = "cwt"
            /\ UNCHANGED <<waves, calls, raised>>
    /\ UNCHANGED <<args, previous, rpeaks, method, dwt_points, cwt_groups, signals>>

\* Lines 89-92.
Cwt ==
    /\ pc = "cwt"
    /\ IF method \in cwt_methods
       THEN \E result \in {ecg_delinator_cwt(args.ecg_cleaned, rpeaks.ECG_R_Peaks,
                                             args.sampling_rate)} :
                /\ Outcome(result, "_ecg_delinator_cwt", "dwt")
                /\ cwt_groups' = result.groups
       ELSE /\ pc' = "dwt"
            /\ UNCHANGED <<waves, calls, raised, cwt_groups>>
    /\ UNCHANGED <<args, previous, rpeaks, method, dwt_points, signals>>

\* The DWT branch with the resampled signal written into the caller's array.
Dwt_resampling_in_place ==
    /\ pc = "dwt"
    /\ IF method \in dwt_methods
       THEN \E result \in {dwt_ecg_delinator(args.ecg_cleaned, rpeaks.ECG_R_Peaks,
                                             args.sampling_rate)} :
                /\ Outcome(result, "_dwt_ecg_delinator", "remove_nan")
                /\ dwt_points' = result.lists
                /\ args' = [args EXCEPT !.ecg_cleaned =
                               signal_resample(args.ecg_cleaned, args.sampling_rate,
                                               analysis_sampling_rate)]
       ELSE /\ pc' = "remove_nan"
            /\ UNCHANGED <<args, waves, calls, raised, dwt_points>>
    /\ UNCHANGED <<previous, rpeaks, method, cwt_groups, signals>>

\* Lines 93-96.
Dwt ==
    /\ pc = "dwt"
    /\ IF method \in dwt_methods
       THEN \E result \in {dwt_ecg_delinator(args.ecg_cleaned, rpeaks.ECG_R_Peaks,
                                             args.sampling_rate)} :
                /\ Outcome(result, "_dwt_ecg_delinator", "remove_nan")
                /\ dwt_points' = result.lists
       ELSE /\ pc' = "remove_nan"
            /\ UNCHANGED <<waves, calls, raised, dwt_points>>
    /\ UNCHANGED <<args, previous, rpeaks, method, cwt_groups, signals>>

\* Lines 97-99: waves is read here for the first time; no strategy has
\* bound it when the method is in none of the three lists.
RemoveNaN ==
    /\ pc = "remove_nan"
    /\ IF DOMAIN waves = {}
       THEN /\ raised' = "UnboundLocalError"
            /\ pc' = "raised"
            /\ UNCHANGED <<waves, calls>>
       ELSE /\ waves' = RemoveNaNs(waves)
            /\ calls' = Append(calls, "remove_nan")
            /\ pc' = "format"
            /\ raised' = raised
    /\ UNCHANGED <<args, previous, rpeaks, method, dwt_points, cwt_groups, signals>>

\* Lines 101-105.
FormatPeaks ==
    /\ pc = "format"
    /\ signals' = signal_formatpeaks(waves, PyLen(args.ecg_cleaned))
    /\ calls' = Append(calls, "signal_formatpeaks")
    /\ pc' = "return"
    /\ UNCHANGED <<args, previous, rpeaks, method, waves, dwt_points, cwt_groups, raised>>

Next ==
    \/ SanitizeInputs
    \/ LowerMethod
    \/ Derivative
    \/ Cwt
    \/ Dwt
    \/ RemoveNaN
    \/ FormatPeaks

Spec == Init /\ [][Next]_vars

(***************************************************************************)
(* The same call in an environment without PyWavelets                      *)
(***************************************************************************)
\* The wavelet transform computed although pywt cannot be imported.
import_guard_left_out(ecg, rpeak_list, sampling_rate) ==
    ecg_delinator_cwt(ecg, rpeak_list, sampling_rate)

\* Lines 360-364 with 503-508: the first statement _ecg_delinator_cwt
\* executes is the call of _peaks_delineator, whose first statement is
\* "import pywt" inside try/except ImportError; the handler raises
\* ImportError("... the 'PyWavelets' module is required ...").
ecg_delinator_cwt_no_pywt(ecg, rpeak_list, sampling_rate) ==
    [raised |-> "ImportError", groups |-> << >>, waves |-> << >>]

\* Lines 89-92 when pywt is not installed.  The module itself imports
\* numpy, pandas, scipy and matplotlib only (lines 2-5), so the other
\* statements of ecg_delineate run as they do with pywt installed.
CwtUnavailable ==
    /\ pc = "cwt"
    /\ IF method \in cwt_methods
       THEN \E result \in {ecg_delinator_cwt_no_pywt(args.ecg_cleaned,
                                                     rpeaks.ECG_R_Peaks,
                                                     args.sampling_rate)} :
                /\ Outcome(result, "_ecg_delinator_cwt", "dwt")
                /\ cwt_groups' = result.groups
       ELSE /\ pc' = "dwt"
            /\ UNCHANGED <<waves, calls, raised, cwt_groups>>
    /\ UNCHANGED <<args, previous, rpeaks, method, dwt_points, signals>>

NextNoPywt ==
    \/ SanitizeInputs
    \/ LowerMethod
    \/ Derivative
    \/ CwtUnavailable
    \/ Dwt
    \/ RemoveNaN
    \/ FormatPeaks

SpecNoPywt == Init /\ [][NextNoPywt]_vars

(***************************************************************************)
(* Two calls in a row with the same argument objects                       *)
(***************************************************************************)
\* The caller keeps what the first call returned or raised and calls
\* ecg_delineate again with the objects it passed before.  Line 20: every
\* name of the function is a parameter or a local, bound anew at entry; the
\* module has no global that a call assigns.
CallAgain ==
    /\ pc \in {"return", "raised"}
    /\ DOMAIN previous = {}
    /\ previous' = [waves |-> waves, signals |-> signals, raised |-> raised,
                    returned |-> (pc = "return")]
    /\ rpeaks' = args.rpeaks
    /\ method' = args.method
    /\ waves' = << >>
    /\ dwt_points' = NoLists
    /\ cwt_groups' = << >>
    /\ signals' = << >>
    /\ calls' = << >>
    /\ raised' = ""
    /\ pc' = "sanitize"
    /\ UNCHANGED args

NextTwice ==
    \/ SanitizeInputs
    \/ LowerMethod
    \/ Derivative
    \/ Cwt
    \/ Dwt
    \/ RemoveNaN
    \/ FormatPeaks
    \/ CallAgain

SpecTwice == Init /\ [][NextTwice]_vars

(***************************************************************************)
(* Helpers of the strategies called on their own                           *)
(***************************************************************************)
\* The names of ecg_delineate that a helper called on its own never binds.
\* In the specifications of this section args holds the helper's arguments
\* and waves, dwt_points and signals hold what it computes.
Unbound ==
    /\ rpeaks = << >>
    /\ method = << >>
    /\ cwt_groups = << >>
    /\ calls = << >>
    /\ raised = ""
    /\ previous = << >>

\* An index of every residue class in the sampling rates explored.
MaxIndex == 9
sampling_rates == {250, 500, 1000, 2000, 5000, 10000}
indices_explored ==
    { [peaks |-> <<Val(x)>>, sampling_rate |-> R] :
        x \in 0..MaxIndex, R \in sampling_rates }

InitResample ==
    /\ args \in indices_explored
    /\ waves = << >>
    /\ dwt_points = NoLists
    /\ signals = << >>
    /\ pc = "resample"
    /\ Unbound

\* Line 140: the indices are taken to the analysis rate.
ResampleToAnalysisRate ==
    /\ pc = "resample"
    /\ dwt_points' = [dwt_points EXCEPT !.tpeaks =
                         dwt_resample_points(args.peaks, args.sampling_rate,
                                             analysis_sampling_rate)]
    /\ pc' = "resample_back"
    /\ UNCHANGED <<args, previous, rpeaks, method, waves, cwt_groups, signals, calls, raised>>

\* Line 153: the indices at the analysis rate are taken back.
ResampleBack ==
    /\ pc = "resample_back"
    /\ waves' = [ECG_T_Peaks |->
                   dwt_resample_points(dwt_points.tpeaks, analysis_sampling_rate,
                                       args.sampling_rate)]
    /\ pc' = "return"
    /\ UNCHANGED <<args, previous, rpeaks, method, dwt_points, cwt_groups, signals, calls, raised>>

NextResample ==
    \/ ResampleToAnalysisRate
    \/ ResampleBack

SpecResample == InitResample /\ [][NextResample]_vars

\* Signals of 1 to MaxLength samples, shorter than the dilated filter banks
\* from degree 1 on, decomposed to 0 to MaxDegree scales.
MaxLength == 4
MaxDegree == 4
signals_explored ==
    { [ecg |-> ecg, max_degree |-> max_degree] :
        ecg \in UNION { [0..(n - 1) -> {-1, 2}] : n \in 1..MaxLength },
        max_degree \in 0..MaxDegree }

InitMultiscales ==
    /\ args \in signals_explored
    /\ waves = << >>
    /\ dwt_points = NoLists
    /\ signals = << >>
    /\ pc = "multiscales"
    /\ Unbound

\* Line 130, dwtmatr = _dwt_compute_multiscales(ecg, 9), for any max_degree.
ComputeMultiscales ==
    /\ pc = "multiscales"
    /\ signals' = dwt_compute_multiscales(args.ecg, args.max_degree)
    /\ pc' = "return"
    /\ UNCHANGED <<args, previous, rpeaks, method, waves, dwt_points, cwt_groups, calls, raised>>

NextMultiscales == ComputeMultiscales

SpecMultiscales == InitMultiscales /\ [][NextMultiscales]_vars

\* A recording at 120 Hz: a complete QRS at sample 20, a depressed segment
\* that returns to the baseline at sample 41, an isoelectric baseline up to
\* an R wave without Q at sample 60.
isoelectric_recording ==
    [ecg_cleaned |-> [i \in 0..79 |->
                        IF i = 19 THEN -2 ELSE IF i = 20 THEN 8
                        ELSE IF i = 21 THEN -3 ELSE IF i \in 22..40 THEN -1
                        ELSE IF i = 60 THEN 8 ELSE IF i = 61 THEN -3 ELSE 0],
     rpeaks |-> <<20, 60>>,
     sampling_rate |-> 120]

\* The peaks of a recording taken one or two at a time, in either order.
peaks_in_any_order(recording) ==
    LET given == { recording.rpeaks[i] : i \in DOMAIN recording.rpeaks }
    IN  { <<p>> : p \in given }
        \cup { pq \in given \X given : pq[1] # pq[2] }
searches_explored ==
    UNION { { [ecg |-> r.ecg_cleaned, peaks |-> peaks, peak_type |-> peak_type,
               sampling_rate |-> r.sampling_rate] :
                peaks \in peaks_in_any_order(r),
                peak_type \in {"rpeaks", "tpeaks", "ppeaks"} } :
            r \in { regular_recording(k) : k \in 2..MaxBeats }
                  \cup {isoelectric_recording} }

InitOnsetOffset ==
    /\ args \in searches_explored
    /\ waves = << >>
    /\ dwt_points = NoLists
    /\ signals = << >>
    /\ pc = "in_sequence"
    /\ Unbound

\* Lines 409-496: the loop over the peaks as the code runs it.
SearchInSequence ==
    /\ pc = "in_sequence"
    /\ waves' = onset_offset_delineator(args.ecg, args.peaks, args.peak_type,
                                        args.sampling_rate)
    /\ pc' = "each_alone"
    /\ UNCHANGED <<args, previous, rpeaks, method, dwt_points, cwt_groups, signals, calls, raised>>

\* Lines 409-496: the body of the loop run for each peak on its own, after
\* no other iteration.
SearchEachAlone ==
    /\ pc = "each_alone"
    /\ signals' = [k \in 1..Len(args.peaks) |->
                     onset_offset_delineator(args.ecg, <<args.peaks[k]>>,
                                             args.peak_type, args.sampling_rate)]
    /\ pc' = "return"
    /\ UNCHANGED <<args, previous, rpeaks, method, waves, dwt_points, cwt_groups, calls, raised>>

NextOnsetOffset ==
    \/ SearchInSequence
    \/ SearchEachAlone

SpecOnsetOffset == InitOnsetOffset /\ [][NextOnsetOffset]_vars

\* Every scale signal of RowLength coefficients that are negative, zero or
\* positive, the same at the two degrees that are searched, with R-peaks
\* that leave no interval, one interval or two.  At 40 Hz srch_bndry is 0
\* and degree_add is -2: the T window of interval i is [rpeaks[i],
\* rpeaks[i + 1]) of row 1 and its P window the samples before rpeaks[i] of
\* row 0.
RowLength == 9
coefficients == {-3, 0, 2}
rpeaks_explored(n) == {<< >>, <<n \div 2>>, <<0, n - 1>>, <<n - 2, n - 1>>, <<1, n \div 2, n - 1>>}
tp_calls_explored ==
    { [rpeaks |-> r, dwtmatr |-> [degree \in 0..1 |-> row], sampling_rate |-> 40] :
        row \in [0..(RowLength - 1) -> coefficients],
        r \in rpeaks_explored(RowLength) }

\* One call of _dwt_delinate_tp_peaks: args holds its arguments, dwt_points
\* its peaks_dict when it returns.
InitTpPeaks ==
    /\ args \in tp_calls_explored
    /\ waves = << >>
    /\ dwt_points = NoLists
    /\ signals = << >>
    /\ pc = "tp_peaks"
    /\ Unbound

\* Lines 174-220.
DelineateTpPeaks ==
    /\ pc = "tp_peaks"
    /\ \E result \in {dwt_delinate_tp_peaks(args.rpeaks, args.dwtmatr,
                                            args.sampling_rate)} :
          /\ dwt_points' = [dwt_points EXCEPT !.tpeaks = result.tpeak,
                                              !.ppeaks = result.ppeak]
          /\ raised' = result.raised
          /\ pc' = IF result.raised # "" THEN "raised" ELSE "return"
    /\ UNCHANGED <<args, previous, rpeaks, method, waves, cwt_groups, signals, calls>>

NextTpPeaks == DelineateTpPeaks

SpecTpPeaks == InitTpPeaks /\ [][NextTpPeaks]_vars

(***************************************************************************)
(* signal_filter                                                           *)
(***************************************************************************)
\* None; a cutoff that is given is <<value>>.
None == << >>

\* The lists that signal_filter tests the lower-cased method against.
savgol_methods ==
    {<<"s", "g">>, <<"s", "a", "v", "g", "o", "l">>,
     <<"s", "a", "v", "i", "t", "z", "k", "y", "-", "g", "o", "l", "a", "y">>}
butterworth_methods ==
    {<<"b", "u", "t", "t", "e", "r">>, <<"b", "u", "t", "t", "e", "r", "w", "o", "r", "t", "h">>}
butterworth_ba_methods ==
    {<<"b", "u", "t", "t", "e", "r", "_", "b", "a">>,
     <<"b", "u", "t", "t", "e", "r", "w", "o", "r", "t", "h", "_", "b", "a">>}
bessel_methods == {<<"b", "e", "s", "s", "e", "l">>}
fir_methods == {<<"f", "i", "r">>}
powerline_methods == {<<"p", "o", "w", "e", "r", "l", "i", "n", "e">>}

\* Both cutoffs given always taken as a band to pass.
sanitize_without_bandstop(lowcut, highcut, sampling_rate) ==
    LET low  == IF lowcut # None /\ lowcut[1] = 0 THEN None ELSE lowcut
        high == IF highcut # None /\ highcut[1] = 0 THEN None ELSE highcut
    IN  IF low # None /\ high # None
        THEN [raised |-> "", freqs |-> <<low[1], high[1]>>, filter_type |-> "bandpass"]
        ELSE IF low # None
        THEN [raised |-> "", freqs |-> <<low[1]>>, filter_type |-> "highpass"]
        ELSE IF high # None
        THEN [raised |-> "", freqs |-> <<high[1]>>, filter_type |-> "lowpass"]
        ELSE [raised |-> "UnboundLocalError", freqs |-> << >>, filter_type |-> ""]

\* _signal_filter_sanitize, called with normalize=False by all its callers.
\* The warning of lines 215-220 is printed and changes nothing.  When
\* neither cutoff is left after lines 223-226 no branch of lines 229-240
\* binds freqs, and line 247 reads it: UnboundLocalError.
signal_filter_sanitize(lowcut, highcut, sampling_rate) ==
    LET low  == IF lowcut # None /\ lowcut[1] = 0 THEN None ELSE lowcut
        high == IF highcut # None /\ highcut[1] = 0 THEN None ELSE highcut
    IN  IF low # None /\ high # None
        THEN [raised |-> "", freqs |-> <<low[1], high[1]>>,
              filter_type |-> IF low[1] > high[1] THEN "bandstop" ELSE "bandpass"]
        ELSE IF low # None
        THEN [raised |-> "", freqs |-> <<low[1]>>, filter_type |-> "highpass"]
        ELSE IF high # None
        THEN [raised |-> "", freqs |-> <<high[1]>>, filter_type |-> "lowpass"]
        ELSE [raised |-> "UnboundLocalError", freqs |-> << >>, filter_type |-> ""]

\* _signal_filter_windowlength: int(np.round(sampling_rate / 3)) for a
\* string; line 254 computes window_length + 1 and drops it.
signal_filter_windowlength(window_length, sampling_rate) ==
    IF window_length.type = "str" THEN (sampling_rate + 1) \div 3
    ELSE window_length.value

\* What a helper hands back: the helper's name, its exception if any, and
\* the signal with the filter that was applied to it.  The filters are
\* scipy's and mne's; they are recorded by the arguments they are given.
Filtered(helper, signal, filter) ==
    [helper |-> helper, raised |-> "",
     returned |-> [signal |-> signal, applied |-> <<filter>>]]
NotFiltered(helper, exception) ==
    [helper |-> helper, raised |-> exception, returned |-> << >>]

\* _signal_filter_savgol.
signal_filter_savgol(signal, sampling_rate, order, window_length) ==
    Filtered("_signal_filter_savgol", signal,
             [filter |-> "scipy.signal.savgol_filter",
              window_length |-> signal_filter_windowlength(window_length, sampling_rate),
              polyorder |-> order])

\* _signal_filter_fir; mne is imported inside the helper.
signal_filter_fir(signal, sampling_rate, lowcut, highcut, window_length, mne_installed) ==
    IF ~mne_installed THEN NotFiltered("_signal_filter_fir", "ImportError")
    ELSE Filtered("_signal_filter_fir", signal,
                  [filter |-> "mne.filter.filter_data", l_freq |-> lowcut,
                   h_freq |-> highcut,
                   filter_length |-> IF window_length.type = "str"
                                     THEN [type |-> "str", value |-> "auto"]
                                     ELSE window_length])

\* Lines 163-166, 174-180 and 190-193: the design and its application once
\* the cutoffs are sanitized.
signal_filter_designed(helper, design, signal, sanitized, order) ==
    IF sanitized.raised # "" THEN NotFiltered(helper, sanitized.raised)
    ELSE Filtered(helper, signal,
                  [filter |-> design, freqs |-> sanitized.freqs,
                   btype |-> sanitized.filter_type, order |-> order])

\* _signal_filter_butterworth.
signal_filter_butterworth(signal, sampling_rate, lowcut, highcut, order) ==
    signal_filter_designed("_signal_filter_butterworth", "scipy.signal.butter sos",
                           signal,
                           signal_filter_sanitize(lowcut, highcut, sampling_rate),
                           order)

\* _signal_filter_butterworth_ba.
signal_filter_butterworth_ba(signal, sampling_rate, lowcut, highcut, order) ==
    signal_filter_designed("_signal_filter_butterworth_ba", "scipy.signal.butter ba",
                           signal,
                           signal_filter_sanitize(lowcut, highcut, sampling_rate),
                           order)

\* _signal_filter_bessel.
signal_filter_bessel(signal, sampling_rate, lowcut, highcut, order) ==
    signal_filter_designed("_signal_filter_bessel", "scipy.signal.bessel sos",
                           signal,
                           signal_filter_sanitize(lowcut, highcut, sampling_rate),
                           order)

\* _signal_filter_powerline: a moving average of int(0.02 * sampling_rate)
\* samples.
signal_filter_powerline(signal, sampling_rate) ==
    Filtered("_signal_filter_powerline", signal,
             [filter |-> "scipy.signal.filtfilt",
              ones |-> TruncDiv(2 * sampling_rate, 100)])

\* Calls with every accepted method, one capitalised and one unknown name,
\* and each cutoff absent, 0 or one of two frequencies, so that lowcut is
\* below highcut in some calls and above it in others.
filter_methods_explored ==
    savgol_methods \cup butterworth_methods \cup butterworth_ba_methods
    \cup bessel_methods \cup fir_methods \cup powerline_methods
    \cup {<<"S", "a", "v", "g", "o", "l">>, <<"m", "e", "d", "i", "a", "n">>}
filter_calls_explored ==
    { [signal |-> "signal", sampling_rate |-> 1000, lowcut |-> lowcut,
       highcut |-> highcut, method |-> m, order |-> 2,
       window_length |-> [type |-> "str", value |-> "default"]] :
        m \in filter_methods_explored,
        lowcut \in {None, <<0>>, <<2>>, <<30>>},
        highcut \in {None, <<0>>, <<10>>, <<40>>} }

\* One call of signal_filter: args holds its arguments, method its local
\* name method, calls the helper it dispatched to and signals the value it
\* returns.
InitFilter ==
    /\ args \in filter_calls_explored
    /\ method = args.method
    /\ rpeaks = << >>
    /\ waves = << >>
    /\ dwt_points = NoLists
    /\ cwt_groups = << >>
    /\ signals = << >>
    /\ calls = << >>
    /\ raised = ""
    /\ pc = "lower"
    /\ previous = << >>

\* Line 82.
FilterLowerMethod ==
    /\ pc = "lower"
    /\ method' = lower(method)
    /\ pc' = "sanity_checks"
    /\ UNCHANGED <<args, previous, rpeaks, waves, dwt_points, cwt_groups, signals, calls, raised>>

\* Lines 85-87: without any cutoff the signal is returned as it came,
\* whatever the method is, powerline excepted.
FilterSanityChecks ==
    /\ pc = "sanity_checks"
    /\ IF method \notin powerline_methods /\ args.lowcut = None /\ args.highcut = None
       THEN /\ signals' = [signal |-> args.signal, applied |-> << >>]
            /\ pc' = "return"
       ELSE /\ signals' = signals
            /\ pc' = "dispatch"
    /\ UNCHANGED <<args, previous, rpeaks, method, waves, dwt_points, cwt_groups, calls, raised>>

\* Lines 89-106.  Whether mne can be imported is the environment's choice.
FilterDispatch ==
    /\ pc = "dispatch"
    /\ \E mne_installed \in BOOLEAN :
       \E result \in
            {IF method \in savgol_methods
             THEN signal_filter_savgol(args.signal, args.sampling_rate, args.order,
                                       args.window_length)
             ELSE IF method \in butterworth_methods
             THEN signal_filter_butterworth(args.signal, args.sampling_rate,
                                            args.lowcut, args.highcut, args.order)
             ELSE IF method \in butterworth_ba_methods
             THEN signal_filter_butterworth_ba(args.signal, args.sampling_rate,
                                               args.lowcut, args.highcut, args.order)
             ELSE IF method \in bessel_methods
             THEN signal_filter_bessel(args.signal, args.sampling_rate,
                                       args.lowcut, args.highcut, args.order)
             ELSE IF method \in fir_methods
             THEN signal_filter_fir(args.signal, args.sampling_rate, args.lowcut,
                                    args.highcut, args.window_length, mne_installed)
             ELSE IF method \in powerline_methods
             THEN signal_filter_powerline(args.signal, args.sampling_rate)
             ELSE NotFiltered("signal_filter", "ValueError")} :
          /\ calls' = IF result.helper = "signal_filter" THEN calls
                      ELSE Append(calls, result.helper)
          /\ raised' = result.raised
          /\ signals' = result.returned
          /\ pc' = IF result.raised # "" THEN "raised" ELSE "return"
    /\ UNCHANGED <<args, previous, rpeaks, method, waves, dwt_points, cwt_groups>>

NextFilter ==
    \/ FilterLowerMethod
    \/ FilterSanityChecks
    \/ FilterDispatch

SpecFilter == InitFilter /\ [][NextFilter]_vars

(***************************************************************************)
(* _signal_filter_savgol called on its own, at every sampling rate         *)
(***************************************************************************)
MaxSamplingRate == 1000

\* window_length left at "default" or given as an int, odd or even.
savgol_calls_explored ==
    { [signal |-> "signal", sampling_rate |-> sampling_rate, order |-> 2,
       window_length |-> window_length] :
        sampling_rate \in 1..MaxSamplingRate,
        window_length \in {[type |-> "str", value |-> "default"],
                           [type |-> "int", value |-> 5],
                           [type |-> "int", value |-> 8]} }

\* One call of _signal_filter_savgol: args holds its arguments, waves the
\* local window_length once line 117 has bound it and signals the value
\* the helper returns.
InitSavgol ==
    /\ args \in savgol_calls_explored
    /\ waves = << >>
    /\ dwt_points = NoLists
    /\ signals = << >>
    /\ pc = "window_length"
    /\ Unbound

\* Line 117.
SavgolWindowLength ==
    /\ pc = "window_length"
    /\ waves' = <<signal_filter_windowlength(args.window_length, args.sampling_rate)>>
    /\ calls' = Append(calls, "_signal_filter_windowlength")
    /\ pc' = "savgol_filter"
    /\ UNCHANGED <<args, previous, rpeaks, method, dwt_points, cwt_groups, signals, raised>>

\* Lines 119-120.
SavgolFilter ==
    /\ pc = "savgol_filter"
    /\ signals' = signal_filter_savgol(args.signal, args.sampling_rate, args.order,
                                       args.window_length).returned
    /\ pc' = "return"
    /\ UNCHANGED <<args, previous, rpeaks, method, waves, dwt_points, cwt_groups, calls, raised>>

NextSavgol ==
    \/ SavgolWindowLength
    \/ SavgolFilter

SpecSavgol == InitSavgol /\ [][NextSavgol]_vars

(***************************************************************************)
(* Properties                                                              *)
(***************************************************************************)
accepted_methods == derivative_methods \cup cwt_methods \cup dwt_methods
strategies ==
    {"_ecg_delineator_derivative", "_ecg_delinator_cwt", "_dwt_ecg_delinator"}
IsStrategy(name) == name \in strategies
strategies_run == SelectSeq(calls, IsStrategy)
Range(f) == { f[x] : x \in DOMAIN f }
rpeaks_given == args.rpeaks.kind # "None"
n_rpeaks == Len(args.rpeaks.ECG_R_Peaks)
n_samples == PyLen(args.ecg_cleaned)
after_strategies == pc \in {"remove_nan", "format", "return"}
all_lists_empty == \A feature \in DOMAIN waves : waves[feature] = << >>

\* C1: a method name that is none of the six accepted names (after
\* lower-casing) aborts the call before anything is executed: no R-peak
\* detection, no strategy, no NaN filtering, no table.
C1_InvalidMethodAbortsFirst ==
    lower(args.method) \notin accepted_methods
        => /\ calls = << >>
           /\ pc \notin {"format", "return"}

\* The spellings of each strategy's names that the explored calls use.
derivative_spellings == {str_derivative, str_gradient, str_Gradient}
cwt_spellings == {str_cwt, str_continuous_wavelet_transform, str_Cwt}
dwt_spellings == {str_dwt, str_discrete_wavelet_transform, str_DWT}
expected_strategy ==
    IF args.method \in derivative_spellings THEN "_ecg_delineator_derivative"
    ELSE IF args.method \in cwt_spellings THEN "_ecg_delinator_cwt"
    ELSE IF args.method \in dwt_spellings THEN "_dwt_ecg_delinator"
    ELSE ""
expected_features ==
    IF args.method \in derivative_spellings
    THEN {"ECG_P_Peaks", "ECG_Q_Peaks", "ECG_S_Peaks", "ECG_T_Peaks",
          "ECG_P_Onsets", "ECG_T_Offsets"}
    ELSE {"ECG_P_Peaks", "ECG_T_Peaks", "ECG_P_Onsets", "ECG_P_Offsets",
          "ECG_T_Onsets", "ECG_T_Offsets", "ECG_R_Onsets", "ECG_R_Offsets"}

\* C2: the method name is read case-insensitively and exactly one strategy
\* runs per call: the derivative delineator for derivative / gradient, the
\* CWT delineator for cwt / continuous wavelet transform, the DWT delineator
\* for dwt / discrete wavelet transform, in any capitalisation; the feature
\* lists that are returned are those of that strategy.
C2_ExactlyOneStrategy ==
    (expected_strategy # "" /\ rpeaks_given)
        => /\ strategies_run \in {<< >>, <<expected_strategy>>}
           /\ (after_strategies \/ pc = "raised")
                 => strategies_run = <<expected_strategy>>
           /\ after_strategies => DOMAIN waves = expected_features

\* A call spelled "Gradient" has returned the derivative delineator's lists.
C2_Witness ==
    /\ pc = "return"
    /\ args.method = str_Gradient
    /\ strategies_run = <<"_ecg_delineator_derivative">>
    /\ "ECG_Q_Peaks" \in DOMAIN waves

\* C3: once the NaN filter has run, every entry of every feature list is a
\* defined sample index, for every method; the indicator table is built
\* from the filtered lists, one column per feature and exactly N rows,
\* with 1 at the listed indices and 0 elsewhere.
C3_DefinedEntriesAndTable ==
    /\ pc \in {"format", "return"}
          => \A feature \in DOMAIN waves :
                \A k \in 1..Len(waves[feature]) : ~IsNaN(waves[feature][k])
    /\ pc = "return"
          => /\ DOMAIN signals = DOMAIN waves
             /\ \A feature \in DOMAIN waves :
                   /\ DOMAIN signals[feature] = 0..(n_samples - 1)
                   /\ \A row \in 0..(n_samples - 1) :
                         /\ signals[feature][row] \in {0, 1}
                         /\ signals[feature][row] = 1
                               <=> \E k \in 1..Len(waves[feature]) :
                                      waves[feature][k] = Val(row)

\* The derivative delineator left undefined entries, and the call has
\* returned lists that are shorter than the R-peaks and a table.
C3_Witness ==
    /\ pc = "return"
    /\ strategies_run = <<"_ecg_delineator_derivative">>
    /\ Len(waves.ECG_P_Peaks) < n_rpeaks
    /\ Len(waves.ECG_Q_Peaks) = n_rpeaks
    /\ DOMAIN signals = DOMAIN waves

\* C4: for a signal of length N and strictly increasing R-peaks in [0, N),
\* every index of every returned feature list lies in [0, N), also when an
\* R-peak is closer to an end of the signal than the windows of the
\* searches.
C4_IndicesInRange ==
    pc = "return"
        => \A feature \in DOMAIN waves :
              \A k \in 1..Len(waves[feature]) :
                 waves[feature][k][1] \in 0..(n_samples - 1)

\* The T / P peak search of the DWT strategy has run; the strategy has
\* completed; the CWT strategy has completed.
dwt_searched == "_dwt_ecg_delinator" \in Range(calls)
dwt_ran == dwt_searched /\ raised = ""
cwt_ran == "_ecg_delinator_cwt" \in Range(calls) /\ raised = ""
rpeak_resampled(i) ==
    TruncDiv(args.rpeaks.ECG_R_Peaks[i] * analysis_sampling_rate, args.sampling_rate)
both_defined(i) ==
    /\ i <= Len(dwt_points.ppeaks)
    /\ ~IsNaN(dwt_points.ppeaks[i])
    /\ ~IsNaN(dwt_points.tpeaks[i])

\* C5 as stated: in every R-R interval processed by the DWT or the CWT
\* strategy, a P-peak and a T-peak that are both defined satisfy
\* P-peak < T-peak.
C5_PPeakBeforeTPeak ==
    /\ dwt_searched
          => \A i \in 1..Len(dwt_points.tpeaks) :
                both_defined(i) => dwt_points.ppeaks[i][1] < dwt_points.tpeaks[i][1]
    /\ (cwt_ran /\ after_strategies)
          => \A i \in 1..Len(waves.ECG_T_Peaks) :
                waves.ECG_P_Peaks[i][1] < waves.ECG_T_Peaks[i][1]

\* C5, amended: in every R-R interval processed by the DWT strategy, a
\* P-peak and a T-peak that are both defined lie on either side of the
\* R-peak that opens the interval, P-peak < R-peak < T-peak (at the analysis
\* rate).  The CWT strategy reports, for every interval, the first refined
\* point between the two R-peaks as the T-peak and the last one as the
\* P-peak, one pair per interval.
C5_DwtAroundRPeakCwtFirstLast ==
    /\ dwt_searched
          => \A i \in 1..Len(dwt_points.tpeaks) :
                both_defined(i)
                   => /\ dwt_points.ppeaks[i][1] < rpeak_resampled(i)
                      /\ rpeak_resampled(i) < dwt_points.tpeaks[i][1]
    /\ (cwt_ran /\ after_strategies)
          => /\ Len(waves.ECG_T_Peaks) = Len(cwt_groups)
             /\ Len(waves.ECG_P_Peaks) = Len(cwt_groups)
             /\ Len(cwt_groups) = n_rpeaks - 1
             /\ \A i \in 1..Len(cwt_groups) :
                   /\ waves.ECG_T_Peaks[i] = Val(cwt_groups[i][1])
                   /\ waves.ECG_P_Peaks[i] = Val(cwt_groups[i][Len(cwt_groups[i])])

\* The DWT strategy has produced a P-peak and a T-peak for one interval.
C5_Witness ==
    /\ pc = "return"
    /\ dwt_ran
    /\ \E i \in 1..Len(dwt_points.tpeaks) : both_defined(i)

\* C6: with a single R-peak (no R-R interval) the DWT path and the CWT path
\* complete without raising and return empty feature lists.
C6_SingleRPeakReturnsEmpty ==
    (n_rpeaks = 1 /\ rpeaks_given /\ lower(args.method) \in cwt_methods \cup dwt_methods)
        => /\ pc # "raised"
           /\ pc = "return" => all_lists_empty

\* C7: with at least two R-peaks, a search window that is empty or holds no
\* qualifying local maximum leaves the feature undefined for that interval
\* and never raises out of the call; stated here for the searches of the
\* CWT and DWT strategies, which the claim lists.
C7_LocalFailureNeverRaises ==
    (n_rpeaks >= 2 /\ rpeaks_given /\ lower(args.method) \in cwt_methods \cup dwt_methods)
        => pc # "raised"

\* C8: on an all-zero signal every method completes without an exception
\* and every returned feature list is empty.
C8_FlatSignalAllEmpty ==
    (/\ \A i \in DOMAIN args.ecg_cleaned : args.ecg_cleaned[i] = 0
     /\ rpeaks_given
     /\ lower(args.method) \in accepted_methods)
        => /\ pc # "raised"
           /\ pc = "return" => all_lists_empty

\* Every search of the DWT strategy succeeded: each of the eight lists
\* holds one defined point per R-R interval.
all_searches_succeeded ==
    /\ dwt_ran
    /\ \A name \in DOMAIN dwt_points :
          /\ Len(dwt_points[name]) = n_rpeaks - 1
          /\ \A i \in 1..(n_rpeaks - 1) : ~IsNaN(dwt_points[name][i])

\* C9 as stated: when every search of the DWT strategy succeeds, k R-peaks
\* give k - 1 T-onsets (7 for 8 R-peaks).
C9_TOnsetsOnePerInterval ==
    (pc = "return" /\ all_searches_succeeded)
        => Len(waves.ECG_T_Onsets) = n_rpeaks - 1

\* C9, amended: when every search of the DWT strategy succeeds, k R-peaks
\* give k - 1 entries in each untrimmed list (T-peaks, T-offsets, P-offsets,
\* R-offsets) and one less, k - 2 (none for k = 1), in each trimmed list
\* (T-onsets, P-peaks, P-onsets, R-onsets): 6 T-onsets for 8 R-peaks.
C9_TrimmedLengths ==
    (pc = "return" /\ all_searches_succeeded)
        => /\ \A feature \in {"ECG_T_Peaks", "ECG_T_Offsets", "ECG_P_Offsets",
                              "ECG_R_Offsets"} :
                 Len(waves[feature]) = n_rpeaks - 1
           /\ \A feature \in {"ECG_T_Onsets", "ECG_P_Peaks", "ECG_P_Onsets",
                              "ECG_R_Onsets"} :
                 Len(waves[feature]) = Max2(n_rpeaks - 2, 0)

\* The DWT strategy has returned for 8 R-peaks, every search succeeding.
C9_Witness ==
    /\ pc = "return"
    /\ all_searches_succeeded
    /\ n_rpeaks = 8
    /\ Len(waves.ECG_T_Onsets) = 6

\* The defined points of a list of the DWT strategy, at the signal's rate.
delivered(points) ==
    dwt_resample_points(points, analysis_sampling_rate, args.sampling_rate)

\* C10: the DWT output omits the slot of the first R-R interval from
\* P-peaks, P-onsets and R-onsets and the slot of the last R-R interval from
\* T-onsets, leaves the other four lists untrimmed and keeps every other
\* defined entry, also when some intervals' entries are undefined.
C10_TrimsRemoveIntervalSlots ==
    (dwt_ran /\ after_strategies)
        => /\ waves.ECG_P_Peaks = delivered(DropFirst(dwt_points.ppeaks))
           /\ waves.ECG_P_Onsets = delivered(DropFirst(dwt_points.ponsets))
           /\ waves.ECG_R_Onsets = delivered(DropFirst(dwt_points.qrs_onsets))
           /\ waves.ECG_T_Onsets = delivered(DropLast(dwt_points.tonsets))
           /\ waves.ECG_T_Peaks = delivered(dwt_points.tpeaks)
           /\ waves.ECG_T_Offsets = delivered(dwt_points.toffsets)
           /\ waves.ECG_P_Offsets = delivered(dwt_points.poffsets)
           /\ waves.ECG_R_Offsets = delivered(dwt_points.qrs_offsets)

\* The derivative strategy has returned, and its lists are as it left them
\* (the NaN filter has not run yet).
derivative_returned ==
    /\ "_ecg_delineator_derivative" \in Range(calls)
    /\ raised = ""
    /\ pc \in {"cwt", "dwt", "remove_nan"}
\* What the loop body computes for R-peak i.
beat_result(i) ==
    derivative_beat(args.ecg_cleaned, args.rpeaks.ECG_R_Peaks[i], args.sampling_rate)

\* C11: the derivative strategy returns six lists of exactly len(rpeaks)
\* entries each, entry i being the result (an index or undefined) of the
\* searches around R-peak i, whatever searches succeed or fail.
C11_DerivativeListsAligned ==
    derivative_returned
        => /\ DOMAIN waves = {"ECG_P_Peaks", "ECG_Q_Peaks", "ECG_S_Peaks",
                              "ECG_T_Peaks", "ECG_P_Onsets", "ECG_T_Offsets"}
           /\ \A feature \in DOMAIN waves : Len(waves[feature]) = n_rpeaks
           /\ \A i \in 1..n_rpeaks :
                 /\ waves.ECG_P_Peaks[i] = beat_result(i).P
                 /\ waves.ECG_Q_Peaks[i] = beat_result(i).Q
                 /\ waves.ECG_S_Peaks[i] = beat_result(i).S
                 /\ waves.ECG_T_Peaks[i] = beat_result(i).T
                 /\ waves.ECG_P_Onsets[i] = beat_result(i).P_onset
                 /\ waves.ECG_T_Offsets[i] = beat_result(i).T_offset

\* Three R-peaks, the first beat's P-peak undefined and the second found:
\* the undefined entry holds the first slot.
C11_Witness ==
    /\ derivative_returned
    /\ n_rpeaks = 3
    /\ Len(waves.ECG_P_Peaks) = 3
    /\ IsNaN(waves.ECG_P_Peaks[1])
    /\ ~IsNaN(waves.ECG_P_Peaks[2])

\* The lists of the derivative strategy called with R-peak i alone.
beat_alone(i) ==
    ecg_delineator_derivative(args.ecg_cleaned, <<args.rpeaks.ECG_R_Peaks[i]>>,
                              args.sampling_rate).waves
\* The epoch of R-peak i and the position of R in it.
heartbeat_of(i) ==
    epochs_create(args.ecg_cleaned, args.rpeaks.ECG_R_Peaks[i], args.sampling_rate)

\* C12: in every beat of the derivative strategy an undefined Q leaves P
\* and the P-onset undefined, an undefined P leaves the P-onset undefined,
\* an undefined S leaves T and the T-offset undefined, an undefined T leaves
\* the T-offset undefined; S and T are what the searches right of the
\* R-peak give, whatever Q and P are; and every beat's results are those of
\* that beat processed alone.
C12_UndefinedStaysInItsBeat ==
    derivative_returned
        => \A i \in 1..n_rpeaks :
              /\ IsNaN(waves.ECG_Q_Peaks[i])
                    => IsNaN(waves.ECG_P_Peaks[i]) /\ IsNaN(waves.ECG_P_Onsets[i])
              /\ IsNaN(waves.ECG_P_Peaks[i]) => IsNaN(waves.ECG_P_Onsets[i])
              /\ IsNaN(waves.ECG_S_Peaks[i])
                    => IsNaN(waves.ECG_T_Peaks[i]) /\ IsNaN(waves.ECG_T_Offsets[i])
              /\ IsNaN(waves.ECG_T_Peaks[i]) => IsNaN(waves.ECG_T_Offsets[i])
              /\ LET rpeak == args.rpeaks.ECG_R_Peaks[i]
                     R == heartbeat_of(i).zero + 1
                     S == derivative_S(rpeak, heartbeat_of(i), R)
                 IN  /\ waves.ECG_S_Peaks[i] = S.index
                     /\ waves.ECG_T_Peaks[i]
                           = derivative_T(rpeak, heartbeat_of(i), R, S.pos).index
              /\ \A feature \in DOMAIN waves :
                    waves[feature][i] = beat_alone(i)[feature][1]

\* The first beat has a Q-peak and no P-peak, hence no P-onset; the second
\* beat has all of them.
C12_Witness ==
    /\ derivative_returned
    /\ n_rpeaks >= 2
    /\ ~IsNaN(waves.ECG_Q_Peaks[1])
    /\ IsNaN(waves.ECG_P_Peaks[1])
    /\ IsNaN(waves.ECG_P_Onsets[1])
    /\ ~IsNaN(waves.ECG_P_Onsets[2])

\* The statements up to and including the cwt branch have been executed.
past_cwt_branch == pc \notin {"sanitize", "lower", "derivative", "cwt"}

cwt_returned == cwt_ran /\ pc = "dwt"

\* C14: every onset/offset search returns one onset slot and one offset
\* slot per peak or interval it was given: the three searches of the CWT
\* strategy (around the R-peaks, the T-peaks and the P-peaks) and the
\* T/P and QRS searches of the DWT strategy (one slot per R-R interval).
C14_OneOnsetOneOffsetPerPeak ==
    /\ cwt_returned
          => /\ Len(waves.ECG_R_Onsets) = n_rpeaks
             /\ Len(waves.ECG_R_Offsets) = n_rpeaks
             /\ Len(waves.ECG_T_Onsets) = Len(waves.ECG_T_Peaks)
             /\ Len(waves.ECG_T_Offsets) = Len(waves.ECG_T_Peaks)
             /\ Len(waves.ECG_P_Onsets) = Len(waves.ECG_P_Peaks)
             /\ Len(waves.ECG_P_Offsets) = Len(waves.ECG_P_Peaks)
    /\ dwt_ran
          => /\ Len(dwt_points.tonsets) = Len(dwt_points.tpeaks)
             /\ Len(dwt_points.toffsets) = Len(dwt_points.tpeaks)
             /\ Len(dwt_points.ponsets) = Len(dwt_points.ppeaks)
             /\ Len(dwt_points.poffsets) = Len(dwt_points.ppeaks)
             /\ Len(dwt_points.qrs_onsets) = Max2(n_rpeaks - 1, 0)
             /\ Len(dwt_points.qrs_offsets) = Max2(n_rpeaks - 1, 0)

\* The second of two calls with the same argument objects has ended.
second_call_ended == DOMAIN previous # {} /\ pc \in {"return", "raised"}

C15_RoundTripWithinOneSample ==
    pc = "return"
        => /\ Len(waves.ECG_T_Peaks) = 1
           /\ Abs(waves.ECG_T_Peaks[1][1] - args.peaks[1][1]) <= 1

\* C18: _dwt_compute_multiscales returns max_degree scale signals indexed
\* by degree from 0, each as long as the input signal, also when the signal
\* is shorter than the dilated filter banks and the time shifts; the signal
\* of degree 0 is the G filter of the input and the signal of degree 1 the
\* G filter of the H-filtered input.
C18_MultiscalesShape ==
    pc = "return"
        => /\ DOMAIN signals = 0..(args.max_degree - 1)
           /\ \A deg \in DOMAIN signals :
                 DOMAIN signals[deg] = 0..(PyLen(args.ecg) - 1)
           /\ args.max_degree >= 1
                 => signals[0] = PySlice(apply_G_filter(args.ecg, 0), 0, PyLen(args.ecg))
           /\ args.max_degree >= 2
                 => signals[1] = PySlice(apply_G_filter(apply_H_filter(args.ecg, 0), 1),
                                         0, PyLen(args.ecg))

\* One sample decomposed to MaxDegree scales of one sample each.
C18_Witness ==
    /\ pc = "return"
    /\ PyLen(args.ecg) = 1
    /\ args.max_degree = MaxDegree
    /\ DOMAIN signals = 0..(MaxDegree - 1)
    /\ DOMAIN signals[MaxDegree - 1] = {0}

\* The onsets, or the offsets, of the separate searches put end to end in
\* the order of the peaks.
RECURSIVE Assembled(_, _)
Assembled(alone, list) ==
    IF alone = << >> THEN << >>
    ELSE Head(alone)[list] \o Assembled(Tail(alone), list)

designed_filter_returned ==
    /\ pc = "return"
    /\ method \in butterworth_methods \cup butterworth_ba_methods \cup bessel_methods
    /\ signals.applied # << >>
lowcut_given == args.lowcut # None
highcut_given == args.highcut # None

C20_SavgolWithoutCutoffsFilters ==
    (/\ pc = "return"
     /\ lower(args.method) \in savgol_methods
     /\ ~lowcut_given
     /\ ~highcut_given)
        => /\ calls = <<"_signal_filter_savgol">>
           /\ signals.applied # << >>

\* The call of _signal_filter_savgol with window_length="default" has
\* returned.
savgol_default_returned ==
    /\ pc = "return"
    /\ calls = <<"_signal_filter_windowlength">>
    /\ args.window_length.type = "str"

\* C21: with window_length="default" the window length handed to
\* scipy.signal.savgol_filter is odd and is the sampling rate divided by 10,
\* taken to the odd integer next to it where the quotient is even (101 for
\* 1000 Hz), at every sampling rate.
C21_DefaultWindowOddTenthOfRate ==
    savgol_default_returned
        => LET window_length == signals.applied[1].window_length
               tenth == args.sampling_rate \div 10
           IN  /\ window_length % 2 = 1
               /\ window_length \in {tenth, tenth + 1}

\* The slot the T / P peak search owes to one window: undefined when the
\* window is empty or no candidate is positive with the candidate after it
\* negative, otherwise the first (T) or the last (P) of the zero crossings
\* of such pairs, counted from srch_idx_start.
tp_slot_owed(dwt_local, peaks, n, srch_idx_start, attribute) ==
    LET pairs == { p \in peaks :
                     \E q \in peaks : /\ q > p
                                      /\ \A c \in peaks : ~(p < c /\ c < q)
                                      /\ dwt_local[p] > 0
                                      /\ dwt_local[q] < 0 }
        zeros == { FirstOf(tp_crossings(dwt_local, peaks, n, p), n) + p : p \in pairs }
    IN  IF n = 0 \/ pairs = {} THEN NaN
        ELSE IF attribute = "tpeak" THEN Val(srch_idx_start + FirstOf(zeros, n))
        ELSE Val(srch_idx_start + LastOf(zeros, n))

tp_window_owed(dwt_local, srch_idx_start, m, d, attribute) ==
    tp_slot_owed(dwt_local,
                 IF PyLen(dwt_local) = 0 THEN {}
                 ELSE tp_candidates(dwt_local, AbsArr(dwt_local), PyLen(dwt_local), m, d),
                 PyLen(dwt_local), srch_idx_start, attribute)

\* The windows of interval i, lines 183-190.
tpeak_owed(i) ==
    LET start == args.rpeaks[i] + srch_bndry(args.sampling_rate)
    IN  tp_window_owed(PySlice(args.dwtmatr[3 + dwt_compensate_degree(args.sampling_rate)],
                               start,
                               args.rpeaks[i + 1] - srch_bndry(args.sampling_rate) * 8),
                       start, 16, 1, "tpeak")
ppeak_owed(i) ==
    LET start == args.rpeaks[i] - (args.sampling_rate \div 2)
    IN  tp_window_owed(PySlice(args.dwtmatr[2 + dwt_compensate_degree(args.sampling_rate)],
                               start,
                               args.rpeaks[i] - srch_bndry(args.sampling_rate)),
                       start, 1, 2500, "ppeak")

\* The R-R intervals of the call.
intervals == 1..(Len(args.rpeaks) - 1)

\* The lists hold one slot per R-R interval, each as the window owes it.
tp_slots_as_owed ==
    /\ DOMAIN dwt_points.tpeaks = intervals
    /\ DOMAIN dwt_points.ppeaks = intervals
    /\ \A i \in intervals : /\ dwt_points.tpeaks[i] = tpeak_owed(i)
                            /\ dwt_points.ppeaks[i] = ppeak_owed(i)

\* C22: _dwt_delinate_tp_peaks returns a T-peak list and a P-peak list with
\* one slot per R-R interval, in interval order; a slot is undefined exactly
\* when its window is empty or holds no positive-then-negative pair of
\* consecutive candidates, and is otherwise the first (T) or last (P) zero
\* crossing of the window, offset by the window start.
C22_OneSlotPerIntervalFirstLastCrossing ==
    pc # "tp_peaks" => pc = "return" /\ tp_slots_as_owed

\* The method names signal_filter recognises, compared in lower case.
recognised_methods ==
    savgol_methods \cup butterworth_methods \cup butterworth_ba_methods
    \cup bessel_methods \cup fir_methods \cup powerline_methods

\* C23: a call of signal_filter with a method name outside the recognised
\* set ends in ValueError whatever lowcut and highcut are, and never returns
\* a result.
C23_UnknownMethodRaisesValueError ==
    (/\ pc \in {"return", "raised"}
     /\ lower(args.method) \notin recognised_methods)
        => /\ pc = "raised"
           /\ raised = "ValueError"
           /\ DOMAIN signals = {}

\* signal_filter has dispatched to a helper that calls
\* _signal_filter_sanitize, and the helper has ended.
sanitize_reached ==
    /\ pc \in {"return", "raised"}
    /\ calls # << >>
    /\ calls[1] \in {"_signal_filter_butterworth", "_signal_filter_butterworth_ba",
                     "_signal_filter_bessel"}

\* C24: with every combination of lowcut and highcut that signal_filter
\* lets through to _signal_filter_sanitize, cutoffs equal to 0 included,
\* freqs and filter_type are bound when it returns: the helper goes on to
\* design its filter with at least one frequency and one of the four types.
C24_SanitizeAlwaysDefined ==
    sanitize_reached
        => /\ raised # "UnboundLocalError"
           /\ pc = "return"
           /\ signals.applied[1].freqs # << >>
           /\ signals.applied[1].btype \in {"lowpass", "highpass", "bandpass", "bandstop"}

====
